---- MODULE Spec2Model ----
(***************************************************************************)
(* Model of the tracking-issue reconcilers of osp:                         *)
(*   planning.Manager.Update   (src/pkg/planning/plan.go)                  *)
(*   onboard.Manager.Update    (src/unnamed/part_018)                      *)
(*   prompt.AskForConfirmation (src/unnamed/part_010)                      *)
(* The remote issue tracker is a numbered list of issues; every run is a   *)
(* separate process that talks to it through Get/Post/Patch.               *)
(***************************************************************************)
EXTENDS Integers, Sequences, FiniteSets, TLC

VARIABLES remote, runs, calls, ask, fin, fout, cmd, mgr

vars == <<remote, runs, calls, ask, fin, fout, cmd, mgr>>

(***************************************************************************)
(* Bounds of the model.                                                    *)
(***************************************************************************)
MaxRuns == 2
InitIssues == 2
MaxReads == 3
MaxCand == 3
MaxNum == 3

Runs == 1..MaxRuns

(***************************************************************************)
(* Options (defaults of DefaultOptions) and the milestones of the repo.    *)
(***************************************************************************)
PlanningLabel == "planning"
TargetLabel == "onboarding"
TargetTitle == "Onboarding: Getting Started with Contributing"

Milestones == {1, 2}
MilestoneTitle(n) == IF n = 1 THEN "v1" ELSE "v2"

\* The rendered bodies differ with the issue set fetched for the milestone
\* (or the search result, for onboarding): Snapshots names those issue sets.
Snapshots == {"s1"}

NoContent == <<>>

\* generatePlanningContent(prepareTemplateData(milestone, issues, opts))
PlanContent(milestoneTitle, snapshot) == <<"planning", milestoneTitle, snapshot>>

\* GenerateContent(issues, repoName, opts)
OnboardContent(snapshot) == <<"onboard", snapshot>>

(***************************************************************************)
(* Strings as sequences of characters: strings.TrimSpace, strings.ToLower. *)
(***************************************************************************)
UpperChars == <<"A","B","C","D","E","F","G","H","I","J","K","L","M",
                "N","O","P","Q","R","S","T","U","V","W","X","Y","Z">>
LowerChars == <<"a","b","c","d","e","f","g","h","i","j","k","l","m",
                "n","o","p","q","r","s","t","u","v","w","x","y","z">>

WhiteSpace == {" ", "\t", "\n", "\r"}

ToLowerChar(c) ==
    IF \E i \in 1..Len(UpperChars) : UpperChars[i] = c
    THEN LowerChars[CHOOSE i \in 1..Len(UpperChars) : UpperChars[i] = c]
    ELSE c

ToLower(s) == [i \in 1..Len(s) |-> ToLowerChar(s[i])]

RECURSIVE TrimLeft(_)
TrimLeft(s) ==
    IF s # <<>> /\ Head(s) \in WhiteSpace THEN TrimLeft(Tail(s)) ELSE s

RECURSIVE TrimRight(_)
TrimRight(s) ==
    IF s # <<>> /\ s[Len(s)] \in WhiteSpace
    THEN TrimRight(SubSeq(s, 1, Len(s) - 1))
    ELSE s

TrimSpace(s) == TrimRight(TrimLeft(s))

\* reader.ReadString('\n') returns the line with its delimiter
ReadString(line) == Append(line, "\n")

\* The lines a user may type (without the line end), by what the user means:
\* an affirmative answer, a negative answer, nothing, or something else.
YesLines == { <<"y">>, <<"Y">>, <<"y","e","s">>, <<"Y","E","S">>,
              <<" ","Y","e","s"," ">>, <<"y","\r">> }
NoLines == { <<"n">>, <<"N">>, <<"n","o">>, <<"N","o","\r">>, <<"\t","n","O">> }
EmptyLines == { <<>>, <<" ">>, <<"\t","\r">> }
OtherLines == { <<"y","e">>, <<"y"," ","e","s">>, <<"o","k">>, <<"n","o","p","e">> }

InputLines == YesLines \cup NoLines \cup EmptyLines \cup OtherLines

Meaning(line) ==
    IF line \in YesLines THEN "yes"
    ELSE IF line \in NoLines THEN "no"
    ELSE IF line \in EmptyLines THEN "empty"
    ELSE "other"

(***************************************************************************)
(* prompt.AskForConfirmation: one iteration of the loop on one line read.  *)
(* "true"/"false" are the values returned, "again" is another iteration.   *)
(***************************************************************************)
AskForConfirmationEmptyReprompts(line) ==
    LET response == ToLower(TrimSpace(ReadString(line)))
    IN  IF response = <<"y">> \/ response = <<"y","e","s">> THEN "true"
        ELSE IF response = <<"n">> \/ response = <<"n","o">> THEN "false"
        ELSE "again"

AskForConfirmation(line) ==
    LET response == ToLower(TrimSpace(ReadString(line)))
    IN  IF response = <<>> THEN "false"
        ELSE IF response = <<"y">> \/ response = <<"y","e","s">> THEN "true"
        ELSE IF response = <<"n">> \/ response = <<"n","o">> THEN "false"
        ELSE "again"

\* planning.askForConfirmation: the same loop without the empty-line case.
PlanAskAcceptsNo(line) ==
    LET response == ToLower(TrimSpace(ReadString(line)))
    IN  IF response = <<"y">> \/ response = <<"y","e","s">> THEN "true"
        ELSE IF response = <<"n">> \/ response = <<"n","o">> THEN "true"
        ELSE "again"

askForConfirmation(line) ==
    LET response == ToLower(TrimSpace(ReadString(line)))
    IN  IF response = <<"y">> \/ response = <<"y","e","s">> THEN "true"
        ELSE IF response = <<"n">> \/ response = <<"n","o">> THEN "false"
        ELSE "again"


(***************************************************************************)
(* The remote tracker: remote[n] is issue #n.  A listing by label returns  *)
(* the issues carrying the label (state=all), in an order the tracker      *)
(* chooses.                                                                *)
(***************************************************************************)
Nil == [number |-> 0, title |-> ""]

MaxInt32 == 2147483647

MinOf(S) == CHOOSE n \in S : \A k \in S : n <= k

Perms(S) ==
    { s \in [1..Cardinality(S) -> S] :
        \A i, j \in 1..Cardinality(S) : i # j => s[i] # s[j] }

Carrying(rem, label) == { n \in 1..Len(rem) : label \in rem[n].labels }

Listings(rem, label) ==
    { [i \in 1..Len(p) |-> [number |-> p[i], title |-> rem[p[i]].title]] :
        p \in Perms(Carrying(rem, label)) }

\* fmt.Sprintf("Planning: %s", milestone.Title)
PlanningTitle(milestoneTitle) == "Planning: " \o milestoneTitle

(***************************************************************************)
(* Target resolution of planning.Manager.Update: the loop over             *)
(* existingIssues that keeps planningIssue and minIssueNumber.             *)
(***************************************************************************)
RECURSIVE FindLoopLastMatch(_, _, _, _, _)
FindLoopLastMatch(existing, i, planningTitle, planningIssue, minIssueNumber) ==
    IF i > Len(existing) THEN planningIssue
    ELSE IF existing[i].title = planningTitle
         THEN FindLoopLastMatch(existing, i + 1, planningTitle,
                                existing[i], existing[i].number)
         ELSE FindLoopLastMatch(existing, i + 1, planningTitle,
                                planningIssue, minIssueNumber)

RECURSIVE FindLoop(_, _, _, _, _)
FindLoop(existing, i, planningTitle, planningIssue, minIssueNumber) ==
    IF i > Len(existing) THEN planningIssue
    ELSE IF existing[i].title = planningTitle
            /\ (planningIssue = Nil \/ existing[i].number < minIssueNumber)
         THEN FindLoop(existing, i + 1, planningTitle,
                       existing[i], existing[i].number)
         ELSE FindLoop(existing, i + 1, planningTitle,
                       planningIssue, minIssueNumber)

FindPlanningIssueLastMatch(existing, planningTitle) ==
    FindLoopLastMatch(existing, 1, planningTitle, Nil, MaxInt32)

FindPlanningIssueGivesUpOnDuplicates(existing, planningTitle) ==
    IF Cardinality({ i \in DOMAIN existing : existing[i].title = planningTitle }) >= 2
    THEN Nil
    ELSE FindLoop(existing, 1, planningTitle, Nil, MaxInt32)

FindPlanningIssue(existing, planningTitle) ==
    FindLoop(existing, 1, planningTitle, Nil, MaxInt32)

(***************************************************************************)
(* Target resolution of onboard.Manager.Update: the smallest number of     *)
(* existingIssues, whatever the titles.                                    *)
(***************************************************************************)
RECURSIVE OnboardLoop(_, _, _)
OnboardLoop(existing, i, onboardingIssue) ==
    IF i > Len(existing) THEN onboardingIssue
    ELSE IF existing[i].number < onboardingIssue.number
         THEN OnboardLoop(existing, i + 1, existing[i])
         ELSE OnboardLoop(existing, i + 1, onboardingIssue)

FindOnboardingIssue(existing) ==
    IF Len(existing) > 0 THEN OnboardLoop(existing, 2, existing[1]) ELSE Nil

\* planning only logs each match at debug level; it has no warning.
PlanWarns(existing) == FALSE

\* log.Warn("Found multiple onboarding issues, ...")
OnboardWarns(existing) == Len(existing) > 1


(***************************************************************************)
(* One run of Update.  pc is the blocking call the run is waiting at.      *)
(***************************************************************************)
IdleRun ==
    [ mode |-> "none", milestone |-> 0, dryRun |-> FALSE, autoConfirm |-> FALSE,
      pc |-> "idle", milestoneTitle |-> "", content |-> NoContent,
      target |-> Nil, matches |-> 0, shown |-> NoContent, prompted |-> FALSE,
      answer |-> "none", resolved |-> FALSE, seenCalls |-> 0,
      net |-> <<>>, warned |-> FALSE, err |-> "" ]

NoErr == ""

\* fmt.Errorf("<operation>: %w", err)
Wrap(operation, cause) == operation \o ": " \o cause

TransportError == "transport error"

\* The decision after the preview: if !opts.DryRun { if !opts.AutoConfirm ...
PlanAfterPreviewIgnoresDryRun(dryRun, autoConfirm) ==
    IF autoConfirm THEN "write" ELSE IF dryRun THEN "done" ELSE "confirm"

PlanAfterPreview(dryRun, autoConfirm) ==
    IF ~dryRun THEN (IF ~autoConfirm THEN "confirm" ELSE "write") ELSE "done"

OnboardAfterPreview(dryRun, autoConfirm) ==
    IF ~dryRun THEN (IF ~autoConfirm THEN "confirm" ELSE "write") ELSE "done"

\* log.C(log.ColorCyan).Log("%s", content)
PreviewNothing(content) == NoContent

Preview(content) == content

\* The number of candidates whose title is the expected one.
Matching(existing, title) ==
    Cardinality({ i \in 1..Len(existing) : existing[i].title = title })

\* The request of the create branch and of the update branch.
PlanCreateRequestBareTitle(milestoneTitle, content) ==
    [ kind |-> "POST", number |-> 0, title |-> milestoneTitle,
      body |-> content, labels |-> {PlanningLabel},
      keys |-> {"title", "body", "labels"} ]

PlanCreateRequestNoLabel(milestoneTitle, content) ==
    [ kind |-> "POST", number |-> 0, title |-> PlanningTitle(milestoneTitle),
      body |-> content, labels |-> {},
      keys |-> {"title", "body", "labels"} ]

PlanCreateRequest(milestoneTitle, content) ==
    [ kind |-> "POST", number |-> 0, title |-> PlanningTitle(milestoneTitle),
      body |-> content, labels |-> {PlanningLabel},
      keys |-> {"title", "body", "labels"} ]

PlanPatchRequestFirstIssue(planningIssue, milestoneTitle, content) ==
    [ kind |-> "PATCH", number |-> 1,
      title |-> PlanningTitle(milestoneTitle), body |-> content, labels |-> {},
      keys |-> {"title", "body"} ]

PlanPatchRequest(planningIssue, milestoneTitle, content) ==
    [ kind |-> "PATCH", number |-> planningIssue.number,
      title |-> PlanningTitle(milestoneTitle), body |-> content, labels |-> {},
      keys |-> {"title", "body"} ]

PlanRequestAlwaysCreates(planningIssue, milestoneTitle, content) ==
    PlanCreateRequest(milestoneTitle, content)

PlanRequest(planningIssue, milestoneTitle, content) ==
    IF planningIssue = Nil
    THEN PlanCreateRequest(milestoneTitle, content)
    ELSE PlanPatchRequest(planningIssue, milestoneTitle, content)

OnboardRequest(onboardingIssue, content) ==
    IF onboardingIssue = Nil
    THEN [ kind |-> "POST", number |-> 0, title |-> TargetTitle,
           body |-> content, labels |-> {TargetLabel},
           keys |-> {"title", "body", "labels"} ]
    ELSE [ kind |-> "PATCH", number |-> onboardingIssue.number,
           title |-> TargetTitle, body |-> content, labels |-> {},
           keys |-> {"title", "body"} ]

\* What the tracker does with a request that succeeds.
Apply(rem, req) ==
    IF req.kind = "POST"
    THEN Append(rem, [title |-> req.title, labels |-> req.labels, body |-> req.body])
    ELSE [rem EXCEPT ![req.number] =
            [ title |-> IF "title" \in req.keys THEN req.title ELSE @.title,
              body |-> IF "body" \in req.keys THEN req.body ELSE @.body,
              labels |-> IF "labels" \in req.keys THEN req.labels ELSE @.labels ]]

\* The log of write calls: the request, the run (and its milestone) that
\* issued it, whether it succeeded and the number the tracker answered.
Call(r, req, ok) ==
    [ run |-> r, mode |-> runs[r].mode, milestone |-> runs[r].milestone,
      kind |-> req.kind, number |-> req.number, title |-> req.title,
      body |-> req.body, labels |-> req.labels, keys |-> req.keys, ok |-> ok,
      response |-> IF ok /\ req.kind = "POST" THEN Len(remote) + 1 ELSE 0 ]


(***************************************************************************)
(* Initial states: a tracker that already holds up to InitIssues issues,   *)
(* among them tracking issues, issues that only carry a tracking label,    *)
(* and an issue that only has the title.                                   *)
(***************************************************************************)
OldBody == <<"old">>

InitKinds ==
    { [title |-> PlanningTitle(MilestoneTitle(1)), labels |-> {PlanningLabel}, body |-> OldBody],
      [title |-> PlanningTitle(MilestoneTitle(2)), labels |-> {PlanningLabel}, body |-> OldBody],
      [title |-> TargetTitle, labels |-> {TargetLabel}, body |-> OldBody],
      [title |-> "Other", labels |-> {PlanningLabel, TargetLabel}, body |-> OldBody],
      [title |-> PlanningTitle(MilestoneTitle(1)), labels |-> {}, body |-> OldBody] }

SeqsUpTo(S, n) == UNION { [1..k -> S] : k \in 0..n }

IdleAsk == [state |-> "idle", lines |-> <<>>, result |-> "none"]
NoInput == [fn |-> "none"]
NoOutput == [fn |-> "none"]
IdleCmd == [pc |-> "idle"]
IdleMgr == [op |-> "none"]

Init ==
    /\ remote \in SeqsUpTo(InitKinds, InitIssues)
    /\ runs = [r \in Runs |-> IdleRun]
    /\ calls = <<>>
    /\ ask = IdleAsk
    /\ fin = NoInput
    /\ fout = NoOutput
    /\ cmd = IdleCmd
    /\ mgr = IdleMgr

FinishRetriesOnError(run, err) ==
    IF err = "" THEN [run EXCEPT !.pc = "done", !.err = err]
    ELSE [run EXCEPT !.err = err]

Finish(run, err) == [run EXCEPT !.pc = "done", !.err = err]

\* The network requests a run has issued, in order.
Net(run, request) == [run EXCEPT !.net = Append(@, request)]

\* A process that has returned from Update is gone; only the tracker and the
\* log of the calls it made remain.
Exited == [IdleRun EXCEPT !.pc = "exited"]

\* The command starts Update with the options of its flags.  Execution is
\* synchronous: a run starts when the run before it has returned.
Start(r) ==
    /\ runs[r].pc = "idle"
    /\ \A q \in Runs : q < r => runs[q].pc \in {"done", "exited"}
    /\ \E mode \in {"plan", "onboard"}, ms \in Milestones, dry \in BOOLEAN, auto \in BOOLEAN :
          /\ mode = "onboard" => ms = 1
          /\ runs' = [q \in Runs |->
                 IF q = r
                 THEN [IdleRun EXCEPT !.mode = mode,
                                      !.milestone = IF mode = "plan" THEN ms ELSE 0,
                                      !.dryRun = dry, !.autoConfirm = auto,
                                      !.pc = IF mode = "plan" THEN "getMilestone" ELSE "search"]
                 ELSE IF q < r THEN Exited ELSE runs[q]]
    /\ UNCHANGED <<remote, calls, ask, fin, fout, cmd, mgr>>

(***************************************************************************)
(* planning.Manager.Update                                                 *)
(***************************************************************************)
PlanGetMilestone(r) ==
    /\ runs[r].mode = "plan" /\ runs[r].pc = "getMilestone"
    /\ \/ /\ runs[r].milestone \in Milestones
          /\ runs' = [runs EXCEPT ![r] =
                     [Net(@, "getMilestone") EXCEPT !.milestoneTitle = MilestoneTitle(runs[r].milestone),
                               !.pc = "getIssues"]]
       \/ runs' = [runs EXCEPT ![r] =
                     Finish(Net(@, "getMilestone"), Wrap("failed to get milestone", TransportError))]
    /\ UNCHANGED <<remote, calls, ask, fin, fout, cmd, mgr>>

PlanGetIssues(r) ==
    /\ runs[r].mode = "plan" /\ runs[r].pc = "getIssues"
    /\ \/ \E snapshot \in Snapshots :
             runs' = [runs EXCEPT ![r] =
                        [Net(@, "getIssues") EXCEPT !.content = PlanContent(runs[r].milestoneTitle, snapshot),
                                  !.pc = "getExisting"]]
       \/ runs' = [runs EXCEPT ![r] =
                     Finish(Net(@, "getIssues"), Wrap("failed to get issues", TransportError))]
    /\ UNCHANGED <<remote, calls, ask, fin, fout, cmd, mgr>>

PlanGetExisting(r) ==
    /\ runs[r].mode = "plan" /\ runs[r].pc = "getExisting"
    /\ \/ \E existingIssues \in Listings(remote, PlanningLabel) :
             LET planningTitle == PlanningTitle(runs[r].milestoneTitle)
                 planningIssue == FindPlanningIssue(existingIssues, planningTitle)
                 next == PlanAfterPreview(runs[r].dryRun, runs[r].autoConfirm)
             IN  runs' = [runs EXCEPT ![r] =
                     [Net(@, "getExisting") EXCEPT !.target = planningIssue,
                               !.resolved = TRUE,
                               !.seenCalls = Len(calls),
                               !.matches = Matching(existingIssues, planningTitle),
                               !.warned = PlanWarns(existingIssues),
                               !.shown = Preview(runs[r].content),
                               !.prompted = (next = "confirm"),
                               !.pc = next]]
       \/ runs' = [runs EXCEPT ![r] =
                     Finish(Net(@, "getExisting"), Wrap("failed to get existing planning issues", TransportError))]
    /\ UNCHANGED <<remote, calls, ask, fin, fout, cmd, mgr>>

\* if err != nil { log.Error("Error reading input: %v", err); return false }
\* and Update, on false, logs "Update cancelled" and returns nil.
PlanReadErrorProceeds(run) == [run EXCEPT !.answer = "readerr", !.pc = "write"]

PlanReadError(run) == [Finish(run, NoErr) EXCEPT !.answer = "readerr"]

\* askForConfirmation reads one line; a read error is a "no".
PlanConfirm(r) ==
    /\ runs[r].mode = "plan" /\ runs[r].pc = "confirm"
    /\ \/ \E line \in InputLines :
             LET res == askForConfirmation(line)
             IN  \/ /\ res = "true"
                    /\ runs' = [runs EXCEPT ![r] = [@ EXCEPT !.answer = Meaning(line), !.pc = "write"]]
                 \/ /\ res = "false"
                    /\ runs' = [runs EXCEPT ![r] = [Finish(@, NoErr) EXCEPT !.answer = Meaning(line)]]
                 \/ /\ res = "again"
                    /\ runs' = [runs EXCEPT ![r] = [@ EXCEPT !.answer = Meaning(line)]]
       \/ runs' = [runs EXCEPT ![r] = PlanReadError(@)]
    /\ UNCHANGED <<remote, calls, ask, fin, fout, cmd, mgr>>

PlanWrite(r) ==
    /\ runs[r].mode = "plan" /\ runs[r].pc = "write"
    /\ LET req == PlanRequest(runs[r].target, runs[r].milestoneTitle, runs[r].content)
           what == IF req.kind = "POST" THEN "failed to create planning issue"
                                        ELSE "failed to update planning issue"
       IN  \/ /\ remote' = Apply(remote, req)
              /\ calls' = Append(calls, Call(r, req, TRUE))
              /\ runs' = [runs EXCEPT ![r] = Finish(Net(@, req.kind), NoErr)]
           \/ /\ calls' = Append(calls, Call(r, req, FALSE))
              /\ runs' = [runs EXCEPT ![r] = Finish(Net(@, req.kind), Wrap(what, TransportError))]
              /\ UNCHANGED remote
    /\ UNCHANGED <<ask, fin, fout, cmd, mgr>>


(***************************************************************************)
(* onboard.Manager.Update                                                  *)
(***************************************************************************)
OnboardSearch(r) ==
    /\ runs[r].mode = "onboard" /\ runs[r].pc = "search"
    /\ \/ \E snapshot \in Snapshots :
             runs' = [runs EXCEPT ![r] =
                        [Net(@, "search") EXCEPT !.content = OnboardContent(snapshot),
                                  !.pc = "getExisting"]]
       \/ runs' = [runs EXCEPT ![r] =
                     Finish(Net(@, "search"), Wrap("failed to search onboarding issues",
                                    Wrap("failed to search issues", TransportError)))]
    /\ UNCHANGED <<remote, calls, ask, fin, fout, cmd, mgr>>

OnboardGetExisting(r) ==
    /\ runs[r].mode = "onboard" /\ runs[r].pc = "getExisting"
    /\ \/ \E existingIssues \in Listings(remote, TargetLabel) :
             LET onboardingIssue == FindOnboardingIssue(existingIssues)
                 next == OnboardAfterPreview(runs[r].dryRun, runs[r].autoConfirm)
             IN  runs' = [runs EXCEPT ![r] =
                     [Net(@, "getExisting") EXCEPT !.target = onboardingIssue,
                               !.resolved = TRUE,
                               !.seenCalls = Len(calls),
                               !.matches = Matching(existingIssues, TargetTitle),
                               !.warned = OnboardWarns(existingIssues),
                               !.shown = Preview(runs[r].content),
                               !.prompted = (next = "confirm"),
                               !.pc = next]]
       \/ runs' = [runs EXCEPT ![r] =
                     Finish(Net(@, "getExisting"), Wrap("failed to get existing onboarding issues", TransportError))]
    /\ UNCHANGED <<remote, calls, ask, fin, fout, cmd, mgr>>

\* prompt.AskForConfirmation reads one line; a read error is returned.
OnboardConfirm(r) ==
    /\ runs[r].mode = "onboard" /\ runs[r].pc = "confirm"
    /\ \/ \E line \in InputLines :
             LET res == AskForConfirmation(line)
             IN  \/ /\ res = "true"
                    /\ runs' = [runs EXCEPT ![r] = [@ EXCEPT !.answer = Meaning(line), !.pc = "write"]]
                 \/ /\ res = "false"
                    /\ runs' = [runs EXCEPT ![r] = [Finish(@, NoErr) EXCEPT !.answer = Meaning(line)]]
                 \/ /\ res = "again"
                    /\ runs' = [runs EXCEPT ![r] = [@ EXCEPT !.answer = Meaning(line)]]
       \/ runs' = [runs EXCEPT ![r] =
                     [Finish(@, Wrap("failed to read user input", "EOF"))
                        EXCEPT !.answer = "readerr"]]
    /\ UNCHANGED <<remote, calls, ask, fin, fout, cmd, mgr>>

OnboardWrite(r) ==
    /\ runs[r].mode = "onboard" /\ runs[r].pc = "write"
    /\ LET req == OnboardRequest(runs[r].target, runs[r].content)
           what == IF req.kind = "POST" THEN "failed to create onboarding issue"
                                        ELSE "failed to update onboarding issue"
       IN  \/ /\ remote' = Apply(remote, req)
              /\ calls' = Append(calls, Call(r, req, TRUE))
              /\ runs' = [runs EXCEPT ![r] = Finish(Net(@, req.kind), NoErr)]
           \/ /\ calls' = Append(calls, Call(r, req, FALSE))
              /\ runs' = [runs EXCEPT ![r] = Finish(Net(@, req.kind), Wrap(what, TransportError))]
              /\ UNCHANGED remote
    /\ UNCHANGED <<ask, fin, fout, cmd, mgr>>

Next ==
    \E r \in Runs :
        \/ Start(r)
        \/ PlanGetMilestone(r)
        \/ PlanGetIssues(r)
        \/ PlanGetExisting(r)
        \/ PlanConfirm(r)
        \/ PlanWrite(r)
        \/ OnboardSearch(r)
        \/ OnboardGetExisting(r)
        \/ OnboardConfirm(r)
        \/ OnboardWrite(r)

Spec == Init /\ [][Next]_vars


(***************************************************************************)
(* Several processes run planning.Manager.Update against the same tracker  *)
(* at once (for instance scheduled jobs with --yes).  Nothing in Update    *)
(* synchronises them: each run's listing and its write are separate        *)
(* requests, and requests of different runs interleave freely.             *)
(***************************************************************************)
InitConcurrent ==
    /\ remote \in SeqsUpTo({ k \in InitKinds : PlanningLabel \in k.labels }, InitIssues)
    /\ runs = [r \in Runs |-> IdleRun]
    /\ calls = <<>>
    /\ ask = IdleAsk
    /\ fin = NoInput
    /\ fout = NoOutput
    /\ cmd = IdleCmd
    /\ mgr = IdleMgr

StartConcurrent(r) ==
    /\ runs[r].pc = "idle"
    /\ \E ms \in Milestones :
          runs' = [runs EXCEPT ![r] =
                     [IdleRun EXCEPT !.mode = "plan", !.milestone = ms,
                                     !.dryRun = FALSE, !.autoConfirm = TRUE,
                                     !.pc = "getMilestone"]]
    /\ UNCHANGED <<remote, calls, ask, fin, fout, cmd, mgr>>

NextConcurrent ==
    \E r \in Runs :
        \/ StartConcurrent(r)
        \/ PlanGetMilestone(r)
        \/ PlanGetIssues(r)
        \/ PlanGetExisting(r)
        \/ PlanWrite(r)

SpecConcurrent == InitConcurrent /\ [][NextConcurrent]_vars


(***************************************************************************)
(* prompt.AskForConfirmation on its own: the loop reads lines from         *)
(* standard input until one is an answer or the read fails.                *)
(***************************************************************************)
InitPrompt ==
    /\ remote = <<>>
    /\ runs = [r \in Runs |-> IdleRun]
    /\ calls = <<>>
    /\ ask = [state |-> "reading", lines |-> <<>>, result |-> "none"]
    /\ fin = NoInput
    /\ fout = NoOutput
    /\ cmd = IdleCmd
    /\ mgr = IdleMgr

AskRead ==
    /\ ask.state = "reading"
    /\ Len(ask.lines) < MaxReads
    /\ \E line \in InputLines :
          LET res == AskForConfirmation(line)
          IN  ask' = [state |-> IF res = "again" THEN "reading" ELSE "returned",
                      lines |-> Append(ask.lines, line),
                      result |-> IF res = "again" THEN "none" ELSE res]
    /\ UNCHANGED <<remote, runs, calls, fin, fout, cmd, mgr>>

AskReadError ==
    /\ ask.state = "reading"
    /\ ask' = [ask EXCEPT !.state = "returned", !.result = "err"]
    /\ UNCHANGED <<remote, runs, calls, fin, fout, cmd, mgr>>

NextPrompt == AskRead \/ AskReadError

SpecPrompt == InitPrompt /\ [][NextPrompt]_vars

(***************************************************************************)
(* The two target resolvers on their own, applied to candidate lists of    *)
(* any order, with repeated numbers and titles.                            *)
(***************************************************************************)
CandTitles == { PlanningTitle(MilestoneTitle(1)), "planning: v1", TargetTitle, "Other" }

Candidates == [number : 1..MaxNum, title : CandTitles]

InitResolve ==
    /\ remote = <<>>
    /\ runs = [r \in Runs |-> IdleRun]
    /\ calls = <<>>
    /\ ask = IdleAsk
    /\ fin \in { [fn |-> f, existing |-> e, milestone |-> m] :
                   f \in {"plan", "onboard"}, e \in SeqsUpTo(Candidates, MaxCand),
                   m \in Milestones }
    /\ fout = NoOutput
    /\ cmd = IdleCmd
    /\ mgr = IdleMgr

ApplyFindPlanningIssue ==
    /\ fin.fn = "plan" /\ fout = NoOutput
    /\ fout' = [fn |-> "plan",
                issue |-> FindPlanningIssue(fin.existing,
                              PlanningTitle(MilestoneTitle(fin.milestone)))]
    /\ UNCHANGED <<remote, runs, calls, ask, fin, cmd, mgr>>

ApplyFindOnboardingIssue ==
    /\ fin.fn = "onboard" /\ fout = NoOutput
    /\ fout' = [fn |-> "onboard",
                issue |-> FindOnboardingIssue(fin.existing),
                warned |-> OnboardWarns(fin.existing)]
    /\ UNCHANGED <<remote, runs, calls, ask, fin, cmd, mgr>>

NextResolve == ApplyFindPlanningIssue \/ ApplyFindOnboardingIssue

SpecResolve == InitResolve /\ [][NextResolve]_vars


(***************************************************************************)
(* The plan command (RunE of newPlanCmd): it checks the selected           *)
(* repository and the milestone argument, then calls Update for that       *)
(* milestone or, without argument, for every open milestone of the         *)
(* listing.  Update is the planning run in slot 1.                         *)
(***************************************************************************)
Digits == <<"0","1","2","3","4","5","6","7","8","9">>

IsDigit(c) == \E d \in 1..Len(Digits) : Digits[d] = c

DigitValue(c) == (CHOOSE d \in 1..Len(Digits) : Digits[d] = c) - 1

\* strings.Split(s, sep) for a one-character separator
RECURSIVE SplitFrom(_, _, _)
SplitFrom(s, sep, part) ==
    IF s = <<>> THEN <<part>>
    ELSE IF Head(s) = sep THEN <<part>> \o SplitFrom(Tail(s), sep, <<>>)
    ELSE SplitFrom(Tail(s), sep, Append(part, Head(s)))

Split(s, sep) == SplitFrom(s, sep, <<>>)

\* fmt.Sscanf(arg, "%d", &n): skip leading space, accept a sign, read the
\* digits that follow; what comes after the digits is not looked at.
RECURSIVE SkipSpace(_)
SkipSpace(s) ==
    IF s # <<>> /\ Head(s) \in {" ", "\t", "\r"} THEN SkipSpace(Tail(s)) ELSE s

RECURSIVE ScanNumber(_, _, _)
ScanNumber(s, value, count) ==
    IF s # <<>> /\ IsDigit(Head(s))
    THEN ScanNumber(Tail(s), value * 10 + DigitValue(Head(s)), count + 1)
    ELSE [value |-> value, count |-> count, rest |-> s]

Sscanf(arg) ==
    LET t == SkipSpace(arg)
        signed == t # <<>> /\ Head(t) \in {"+", "-"}
        u == IF signed THEN Tail(t) ELSE t
        n == ScanNumber(u, 0, 0)
    IN  IF u = <<>> THEN [err |-> "unexpected EOF", value |-> 0]
        ELSE IF n.count = 0 THEN [err |-> "expected integer", value |-> 0]
        ELSE [err |-> "", value |-> IF signed /\ Head(t) = "-" THEN 0 - n.value ELSE n.value]

\* The command lines and configurations the command is run with.
WellFormedArgs == { <<"1">>, <<"2">>, <<"7">>, <<"-","1">> }
MalformedArgs == { <<>>, <<"x">>, <<"1","x">>, <<" ","2">>, <<"1",".","5">>, <<"-">> }
ArgLists == { <<>> } \cup { <<a>> : a \in WellFormedArgs \cup MalformedArgs }

OwnerRepoNames == { <<"o","/","r">> }
OtherRepoNames == { <<"o","r">>, <<"o","/","r","/","x">> }
RepoNames == { <<>> } \cup OwnerRepoNames \cup OtherRepoNames

\* The listing of the open milestones, in the order the tracker returns it.
MilestoneLists == UNION { Perms(S) : S \in SUBSET Milestones }

StartedPlan(milestone, dryRun, autoConfirm) ==
    [IdleRun EXCEPT !.mode = "plan", !.milestone = milestone,
                    !.dryRun = dryRun, !.autoConfirm = autoConfirm,
                    !.pc = "getMilestone"]

InitCmd ==
    /\ remote \in SeqsUpTo({ k \in InitKinds :
                               /\ k.title = PlanningTitle(MilestoneTitle(1))
                               /\ k.labels = {PlanningLabel} }, InitIssues)
    /\ runs = [r \in Runs |-> IdleRun]
    /\ calls = <<>>
    /\ ask = IdleAsk
    /\ fin = NoInput
    /\ fout = NoOutput
    /\ cmd \in [ pc : {"start"}, args : ArgLists, repo : RepoNames,
                 dryRun : BOOLEAN, autoConfirm : BOOLEAN,
                 milestones : {<<>>}, idx : {0}, attempts : {<<>>},
                 logged : {<<>>}, net : {0}, result : {"none"} ]
    /\ mgr = IdleMgr

Return(c, result) == [c EXCEPT !.pc = "returned", !.result = result]

Attempt(run) ==
    [ milestone |-> run.milestone, dryRun |-> run.dryRun,
      autoConfirm |-> run.autoConfirm, err |-> run.err ]

\* for _, m := range milestones { if err := Update(...); err != nil { log; continue } }
BatchStopsOnError(err, idx, count) == err = NoErr /\ idx < count

BatchGoesOn(err, idx, count) == idx < count

\* The loop over the milestones is followed by "return nil".
BatchResultFirstFailure(logged) == IF logged = <<>> THEN NoErr ELSE logged[1].err

BatchResult(logged) == NoErr

CmdRun ==
    /\ cmd.pc = "start"
    /\ \/ /\ cmd' = Return(cmd, Wrap("failed to create GitHub client", "no credentials"))
          /\ UNCHANGED runs
       \/ /\ cmd' = Return(cmd, Wrap("failed to load config", "unreadable"))
          /\ UNCHANGED runs
       \/ LET currentRepo == cmd.repo
              parts == Split(currentRepo, "/")
              scanned == Sscanf(cmd.args[1])
          IN  IF currentRepo = <<>>
              THEN /\ cmd' = Return(cmd, "no repository selected")
                   /\ UNCHANGED runs
              ELSE IF Len(parts) # 2
              THEN /\ cmd' = Return(cmd, "invalid repository format")
                   /\ UNCHANGED runs
              ELSE IF Len(cmd.args) > 0
              THEN IF scanned.err # ""
                   THEN /\ cmd' = Return(cmd, Wrap("invalid milestone number", scanned.err))
                        /\ UNCHANGED runs
                   ELSE /\ cmd' = [cmd EXCEPT !.pc = "single"]
                        /\ runs' = [runs EXCEPT ![1] =
                              StartedPlan(scanned.value, cmd.dryRun, cmd.autoConfirm)]
              ELSE /\ cmd' = [cmd EXCEPT !.pc = "list"]
                   /\ UNCHANGED runs
    /\ UNCHANGED <<remote, calls, ask, fin, fout, mgr>>

\* manager.ListOpenMilestones, then the first Update of the loop
CmdList ==
    /\ cmd.pc = "list"
    /\ \/ /\ cmd' = [Return(cmd, Wrap("failed to list open milestones",
                                Wrap("failed to list milestones", TransportError)))
                       EXCEPT !.net = @ + 1]
          /\ UNCHANGED runs
       \/ \E milestones \in MilestoneLists :
             IF Len(milestones) = 0
             THEN /\ cmd' = [Return(cmd, NoErr) EXCEPT !.net = @ + 1]
                  /\ UNCHANGED runs
             ELSE /\ cmd' = [cmd EXCEPT !.pc = "batch", !.net = @ + 1,
                                        !.milestones = milestones, !.idx = 1]
                  /\ runs' = [runs EXCEPT ![1] =
                        StartedPlan(milestones[1], cmd.dryRun, cmd.autoConfirm)]
    /\ UNCHANGED <<remote, calls, ask, fin, fout, mgr>>

\* Update returns to the command: the result of the single Update, or the
\* rest of the loop over the open milestones.
CmdUpdateReturns ==
    /\ cmd.pc \in {"single", "batch"}
    /\ runs[1].pc = "done"
    /\ LET err == runs[1].err
           seen == [cmd EXCEPT !.attempts = Append(@, Attempt(runs[1]))]
           logs == [seen EXCEPT !.logged =
                      IF err # NoErr THEN Append(@, [milestone |-> runs[1].milestone, err |-> err])
                      ELSE @]
       IN  IF cmd.pc = "single"
           THEN /\ cmd' = Return(seen, err)
                /\ UNCHANGED runs
           ELSE IF BatchGoesOn(err, cmd.idx, Len(cmd.milestones))
           THEN /\ cmd' = [logs EXCEPT !.idx = @ + 1]
                /\ runs' = [runs EXCEPT ![1] =
                      StartedPlan(cmd.milestones[cmd.idx + 1], cmd.dryRun, cmd.autoConfirm)]
           ELSE /\ cmd' = Return(logs, BatchResult(logs.logged))
                /\ UNCHANGED runs
    /\ UNCHANGED <<remote, calls, ask, fin, fout, mgr>>

NextCmd ==
    \/ CmdRun
    \/ CmdList
    \/ CmdUpdateReturns
    \/ PlanGetMilestone(1)
    \/ PlanGetIssues(1)
    \/ PlanGetExisting(1)
    \/ PlanConfirm(1)
    \/ PlanWrite(1)

SpecCmd == InitCmd /\ [][NextCmd]_vars

(***************************************************************************)
(* generateProgressBar of the planning package.  Its arithmetic is done in *)
(* float64: a positive value is 1.f * 2^e, where the fraction f has 52     *)
(* bits, kept here as Limbs limbs of LimbBits bits each, most significant  *)
(* first.  Division and multiplication round to nearest, ties to even; the *)
(* conversion to int truncates.                                            *)
(***************************************************************************)
Limbs == 4

LimbBits == 13

MaxTotal == 50

BarLengths == {10, 20}

RECURSIVE Pow2(_)
Pow2(k) == IF k = 0 THEN 1 ELSE 2 * Pow2(k - 1)

LimbBase == Pow2(LimbBits)

RECURSIVE BitLen(_)
BitLen(v) == IF v = 0 THEN 0 ELSE 1 + BitLen(v \div 2)

Zero64 == [zero |-> TRUE, f |-> [i \in 1..Limbs |-> 0], e |-> 0]

\* f + 1 in the last place; carry is set when the fraction wraps to zero.
RECURSIVE IncLimbs(_, _)
IncLimbs(f, i) ==
    IF i = 0 THEN [f |-> f, carry |-> TRUE]
    ELSE IF f[i] + 1 < LimbBase THEN [f |-> [f EXCEPT ![i] = @ + 1], carry |-> FALSE]
    ELSE IncLimbs([f EXCEPT ![i] = 0], i - 1)

\* Round a fraction given the first dropped bit (half) and whether anything
\* is set below it (sticky).
RoundNearestEven(f, e, half, sticky) ==
    LET up == half = 1 /\ (sticky \/ f[Limbs] % 2 = 1)
        inc == IncLimbs(f, Limbs)
    IN  IF ~up THEN [zero |-> FALSE, f |-> f, e |-> e]
        ELSE IF inc.carry THEN [zero |-> FALSE, f |-> inc.f, e |-> e + 1]
        ELSE [zero |-> FALSE, f |-> inc.f, e |-> e]

\* Scale numerator and denominator until 1 <= n/d < 2.
RECURSIVE Normalise(_, _, _)
Normalise(n, d, k) ==
    IF n < d THEN Normalise(2 * n, d, k + 1)
    ELSE IF n >= 2 * d THEN Normalise(n, 2 * d, k - 1)
    ELSE [n |-> n, d |-> d, k |-> k]

\* Long division, one limb at a time: r is the remainder before limb i.
RECURSIVE DivLimbs(_, _, _, _)
DivLimbs(r, d, f, i) ==
    IF i > Limbs THEN [f |-> f, r |-> r]
    ELSE DivLimbs((r * LimbBase) % d, d, [f EXCEPT ![i] = (r * LimbBase) \div d], i + 1)

\* float64(a) / float64(b) for small integers a >= 0, b > 0
Div64(a, b) ==
    IF a = 0 THEN Zero64
    ELSE LET s == Normalise(a, b, 0)
             q == DivLimbs(s.n - s.d, s.d, Zero64.f, 1)
             half == IF 2 * q.r >= s.d THEN 1 ELSE 0
             sticky == 2 * q.r - half * s.d # 0
         IN  RoundNearestEven(q.f, 0 - s.k, half, sticky)

\* (1.f) * n, limb by limb from the last place: the fraction limbs of the
\* product and its integer part top.
RECURSIVE MulLimbs(_, _, _, _)
MulLimbs(f, n, i, carry) ==
    IF i = 0 THEN [f |-> f, top |-> n + carry]
    ELSE MulLimbs([f EXCEPT ![i] = (f[i] * n + carry) % LimbBase], n, i - 1,
                  (f[i] * n + carry) \div LimbBase)

\* x * float64(n) for a small integer n > 0
Mul64(x, n) ==
    IF x.zero THEN Zero64
    ELSE LET p == MulLimbs(x.f, n, Limbs, 0)
             extra == BitLen(p.top) - 1
             low == Pow2(extra)
             high == Pow2(LimbBits - extra)
             above(i) == IF i = 1 THEN p.top - low ELSE p.f[i - 1] % low
             shifted == [i \in 1..Limbs |-> above(i) * high + p.f[i] \div low]
             dropped == p.f[Limbs] % low
             half == IF extra > 0 /\ dropped >= low \div 2 THEN 1 ELSE 0
             sticky == extra > 0 /\ dropped % (low \div 2) # 0
         IN  RoundNearestEven(shifted, x.e + extra, half, sticky)

\* int(x) for 0 <= x < 2^LimbBits
Int64(x) ==
    IF x.zero \/ x.e < 0 THEN 0
    ELSE Pow2(x.e) + x.f[1] \div Pow2(LimbBits - x.e)

RECURSIVE Repeat(_, _)
Repeat(c, count) == IF count <= 0 THEN <<>> ELSE <<c>> \o Repeat(c, count - 1)

\* fmt.Sprintf("%d", n) for n >= 0
RECURSIVE Itoa(_)
Itoa(n) ==
    IF n < 10 THEN <<Digits[n + 1]>>
    ELSE Append(Itoa(n \div 10), Digits[(n % 10) + 1])

generateProgressBar(completed, total, length) ==
    IF total = 0
    THEN Repeat("░", length) \o <<" ", "0", "%">>
    ELSE LET progress == Int64(Mul64(Div64(completed, total), length))
             percentage == Int64(Mul64(Div64(completed, total), 100))
             filled == Repeat("█", progress)
             empty == Repeat("░", length - progress)
         IN  filled \o empty \o <<" ">> \o Itoa(percentage) \o <<"%">>

\* fmt.Sprintf("%.1f", x) for 1 <= x < 2^LimbBits: x*10 exactly, rounded to
\* an integer number of tenths (nearest, ties to even), then printed.
Tenths(x) ==
    IF x.zero THEN 0
    ELSE LET p == MulLimbs(x.f, 10, Limbs, 0)
             unit == Pow2(LimbBits - x.e)
             whole == p.top * Pow2(x.e) + p.f[1] \div unit
             rest == p.f[1] % unit
             half == IF 2 * rest >= unit THEN 1 ELSE 0
             sticky == 2 * rest - half * unit # 0 \/ \E i \in 2..Limbs : p.f[i] # 0
         IN  IF half = 1 /\ (sticky \/ whole % 2 = 1) THEN whole + 1 ELSE whole

FormatOneDecimal(x) ==
    Itoa(Tenths(x) \div 10) \o <<".">> \o Itoa(Tenths(x) % 10)

\* generateProgressBar of the onboard package: const width = 20
OnboardBar(completed, total) ==
    IF total = 0 THEN Repeat("░", 20)
    ELSE LET percentage == Div64(completed, total)
             scaled == Int64(Mul64(percentage, 20))
             atLeastOne == IF completed > 0 /\ scaled = 0 THEN 1 ELSE scaled
             filledWidth == IF atLeastOne > 20 THEN 20 ELSE atLeastOne
         IN  Repeat("█", filledWidth) \o Repeat("░", 20 - filledWidth)
                 \o <<" ">> \o FormatOneDecimal(Mul64(percentage, 100)) \o <<"%">>

InitBar ==
    /\ remote = <<>>
    /\ runs = [r \in Runs |-> IdleRun]
    /\ calls = <<>>
    /\ ask = IdleAsk
    /\ fin \in { [fn |-> "bar", completed |-> c, total |-> t, length |-> l] :
                   c \in 0..MaxTotal, t \in 0..MaxTotal, l \in BarLengths }
               \cup { [fn |-> "obar", completed |-> c, total |-> t] :
                        c \in 0..MaxTotal, t \in 0..MaxTotal }
    /\ fin.fn = "bar" => fin.completed <= fin.total
    /\ fout = NoOutput
    /\ cmd = IdleCmd
    /\ mgr = IdleMgr

ApplyGenerateProgressBar ==
    /\ fin.fn = "bar" /\ fout = NoOutput
    /\ fout' = [fn |-> "bar",
                text |-> generateProgressBar(fin.completed, fin.total, fin.length)]
    /\ UNCHANGED <<remote, runs, calls, ask, fin, cmd, mgr>>

ApplyOnboardBar ==
    /\ fin.fn = "obar" /\ fout = NoOutput
    /\ fout' = [fn |-> "obar", text |-> OnboardBar(fin.completed, fin.total)]
    /\ UNCHANGED <<remote, runs, calls, ask, fin, cmd, mgr>>

NextBar == ApplyGenerateProgressBar \/ ApplyOnboardBar

SpecBar == InitBar /\ [][NextBar]_vars


(***************************************************************************)
(* Classification and statistics: planning prepareTemplateData with        *)
(* getPriorityLevel, onboarding SearchOnboardIssues and GenerateContent.   *)
(* An issue is a record of its number, state, assignee login ("" for none) *)
(* and labels in the order the tracker returns them.                       *)
(***************************************************************************)
MaxIssues == 2

\* DefaultOptions of the two packages
Categories == <<"bug", "documentation", "enhancement">>
Priorities == <<"priority/high", "priority/medium", "priority/low">>
DifficultyLabels == <<"good first issue", "help wanted">>
CategoryLabels == <<"bug", "enhancement", "documentation">>

\* strings.EqualFold over the label names in use
Fold(name) == IF name = "Bug" THEN "bug" ELSE name

EqualFold(a, b) == Fold(a) = Fold(b)

\* The logins in use, in lexicographic order; sort.Strings orders by it.
Logins == <<"alice", "bob">>

Rank(login) == CHOOSE i \in 1..Len(Logins) : Logins[i] = login

LabelSets ==
    { {}, {"Bug"}, {"bug", "enhancement"}, {"priority/low", "priority/high"},
      {"help wanted", "good first issue"} }

LabelSeqs == UNION { Perms(S) : S \in LabelSets }

IssueKinds ==
    { [state |-> p[1], assignee |-> p[2], labels |-> l] :
        p \in { <<"open", "">>, <<"open", "alice">>,
                <<"closed", "alice">>, <<"closed", "bob">> },
        l \in LabelSeqs }

\* A listing, newest issue first.
Numbered(kinds) ==
    [ i \in 1..Len(kinds) |->
        [ number |-> Len(kinds) - i + 1, state |-> kinds[i].state,
          assignee |-> kinds[i].assignee, labels |-> kinds[i].labels ] ]

\* Insertion sort of <<key, item>> pairs by key; a key is a pair of numbers.
LessKey(a, b) == a[1] < b[1] \/ (a[1] = b[1] /\ a[2] < b[2])

RECURSIVE InsertByKey(_, _)
InsertByKey(p, sorted) ==
    IF sorted = <<>> THEN <<p>>
    ELSE IF LessKey(p[1], Head(sorted)[1]) THEN <<p>> \o sorted
    ELSE <<Head(sorted)>> \o InsertByKey(p, Tail(sorted))

RECURSIVE SortPairs(_)
SortPairs(pairs) ==
    IF pairs = <<>> THEN <<>> ELSE InsertByKey(Head(pairs), SortPairs(Tail(pairs)))

Items(pairs) == [i \in 1..Len(pairs) |-> pairs[i][2]]

\* for _, label := range labels { for i, priority := range priorities { ... return i } }
RECURSIVE getPriorityLevel(_, _)
getPriorityLevel(labels, priorities) ==
    IF labels = <<>> THEN Len(priorities)
    ELSE LET hits == { i \in 1..Len(priorities) : EqualFold(Head(labels), priorities[i]) }
         IN  IF hits # {} THEN MinOf(hits) - 1
             ELSE getPriorityLevel(Tail(labels), priorities)

SortByPriority(issues, priorities) ==
    Items(SortPairs([ i \in 1..Len(issues) |->
        << <<getPriorityLevel(issues[i].labels, priorities), issues[i].number>>,
           issues[i] >> ]))

\* The keys of the contributors map: the assignees of the closed issues.
ContributorKeys(issues) ==
    { issues[i].assignee : i \in { j \in 1..Len(issues) :
                                     issues[j].state = "closed" /\ issues[j].assignee # "" } }

\* for contributor := range contributors: Go ranges over a map in any order.
MapOrders(keys) == Perms(keys)

\* The issue appended to the bucket once for each of its labels that matches.
RECURSIVE Bucket(_, _)
Bucket(issues, category) ==
    IF issues = <<>> THEN <<>>
    ELSE LET issue == Head(issues)
             matching == SelectSeq(issue.labels, LAMBDA label : EqualFold(label, category))
         IN  [i \in 1..Len(matching) |-> issue] \o Bucket(Tail(issues), category)

Categorized(issue, categories) ==
    \E c \in 1..Len(categories) : \E l \in 1..Len(issue.labels) :
        EqualFold(issue.labels[l], categories[c])

prepareTemplateData(issues, contributorsList, categories, priorities) ==
    LET completedIssues == Len(SelectSeq(issues, LAMBDA issue : issue.state = "closed"))
        totalIssues == Len(issues)
    IN  [ total |-> totalIssues,
          completed |-> completedIssues,
          progress |-> IF totalIssues > 0
                       THEN Mul64(Div64(completedIssues, totalIssues), 100)
                       ELSE Zero64,
          contributors |-> contributorsList,
          issues |-> [ c \in { categories[i] : i \in 1..Len(categories) } |->
                         SortByPriority(Bucket(issues, c), priorities) ],
          uncategorized |-> SelectSeq(issues, LAMBDA issue : ~Categorized(issue, categories)),
          highPriority |-> IF Len(priorities) >= 2
                           THEN SortByPriority(
                                    SelectSeq(issues, LAMBDA issue :
                                        getPriorityLevel(issue.labels, priorities) < 2),
                                    priorities)
                           ELSE <<>>,
          progressBar |-> generateProgressBar(completedIssues, totalIssues, 20) ]

\* Onboarding: the first label, in label order, that matches an entry of the
\* taxonomy decides; "" when no label matches.
RECURSIVE FirstLabelMatch(_, _)
FirstLabelMatch(labels, taxonomy) ==
    IF labels = <<>> THEN ""
    ELSE LET hits == { i \in 1..Len(taxonomy) : EqualFold(Head(labels), taxonomy[i]) }
         IN  IF hits # {} THEN taxonomy[MinOf(hits)]
             ELSE FirstLabelMatch(Tail(labels), taxonomy)

SearchOnboardIssues(items) ==
    [ i \in 1..Len(items) |->
        [ number |-> items[i].number, status |-> items[i].state,
          assignee |-> items[i].assignee,
          difficulty |-> FirstLabelMatch(items[i].labels, DifficultyLabels),
          category |-> FirstLabelMatch(items[i].labels, CategoryLabels) ] ]

UniqueKeepsAll(issues, seen) == issues

\* uniqueIssues: the first occurrence of every issue number
RECURSIVE Unique(_, _)
Unique(issues, seen) ==
    IF issues = <<>> THEN <<>>
    ELSE IF Head(issues).number \in seen THEN Unique(Tail(issues), seen)
    ELSE <<Head(issues)>> \o Unique(Tail(issues), seen \cup {Head(issues).number})

SortByStatusNumberOnly(issues) ==
    Items(SortPairs([ i \in 1..Len(issues) |-> << <<0, issues[i].number>>, issues[i] >> ]))

SortByStatus(issues) ==
    Items(SortPairs([ i \in 1..Len(issues) |->
        << <<IF issues[i].status = "open" THEN 0 ELSE 1, issues[i].number>>,
           issues[i] >> ]))

\* sort.Strings over the logins in use
SortStrings(keys) ==
    Items(SortPairs([ i \in 1..Cardinality(keys) |->
        LET login == CHOOSE l \in keys :
                       Cardinality({ k \in keys : Rank(k) < Rank(l) }) = i - 1
        IN  << <<Rank(login), 0>>, login >> ]))

OnboardStatsCountsAssigneeFirst(uniqueIssues) ==
    [ total |-> Len(uniqueIssues),
      completed |-> Len(SelectSeq(uniqueIssues, LAMBDA i : i.status = "closed" /\ i.assignee = "")),
      inProgress |-> Len(SelectSeq(uniqueIssues, LAMBDA i : i.assignee # "")),
      unassigned |-> Len(SelectSeq(uniqueIssues, LAMBDA i : i.status # "closed" /\ i.assignee = "")),
      contributors |-> SortStrings({ uniqueIssues[i].assignee :
                          i \in { j \in 1..Len(uniqueIssues) : uniqueIssues[j].assignee # "" } }) ]

OnboardStats(uniqueIssues) ==
    [ total |-> Len(uniqueIssues),
      completed |-> Len(SelectSeq(uniqueIssues, LAMBDA i : i.status = "closed")),
      inProgress |-> Len(SelectSeq(uniqueIssues, LAMBDA i : i.status # "closed" /\ i.assignee # "")),
      unassigned |-> Len(SelectSeq(uniqueIssues, LAMBDA i : i.status # "closed" /\ i.assignee = "")),
      contributors |-> SortStrings({ uniqueIssues[i].assignee :
                          i \in { j \in 1..Len(uniqueIssues) :
                                    /\ uniqueIssues[j].status = "closed"
                                    /\ uniqueIssues[j].assignee # "" } }) ]

\* The data GenerateContent hands to the template.
GenerateContentData(issues) ==
    LET uniqueIssues == Unique(issues, {})
        known(name, taxonomy) ==
            IF \E i \in 1..Len(taxonomy) : taxonomy[i] = name THEN name ELSE ""
        bucket(d, c) == SelectSeq(uniqueIssues, LAMBDA i :
                            /\ known(i.difficulty, DifficultyLabels) = d
                            /\ known(i.category, CategoryLabels) = c)
    IN  [ issuesByCategory |->
              [ d \in { DifficultyLabels[i] : i \in 1..Len(DifficultyLabels) } \cup {""} |->
                  [ c \in { CategoryLabels[i] : i \in 1..Len(CategoryLabels) } \cup {""} |->
                      SortByStatus(bucket(d, c)) ] ],
          unique |-> uniqueIssues,
          stats |-> OnboardStats(uniqueIssues) ]

InitData ==
    /\ remote = <<>>
    /\ runs = [r \in Runs |-> IdleRun]
    /\ calls = <<>>
    /\ ask = IdleAsk
    /\ fin \in { [fn |-> "data", issues |-> Numbered(kinds)] :
                   kinds \in SeqsUpTo(IssueKinds, MaxIssues) }
    /\ fout = NoOutput
    /\ cmd = IdleCmd
    /\ mgr = IdleMgr

\* The --priorities taxonomies the command is run with.
PriorityTaxonomies == { Priorities, <<"priority/high">> }

ApplyPrepareTemplateData ==
    /\ fin.fn = "data" /\ fout = NoOutput
    /\ \E contributorsList \in MapOrders(ContributorKeys(fin.issues)),
          priorities \in PriorityTaxonomies :
          fout' = [fn |-> "plan",
                   priorities |-> priorities,
                   data |-> prepareTemplateData(fin.issues, contributorsList,
                                                Categories, priorities)]
    /\ UNCHANGED <<remote, runs, calls, ask, fin, cmd, mgr>>

\* The orders in which the search can return the issues.
Orders(issues) ==
    { [i \in 1..Len(issues) |-> issues[p[i]]] : p \in Perms(1..Len(issues)) }

\* An issue whose difficulty is none of the configured DifficultyLabels, as a
\* caller of GenerateContent can pass it.
Foreign(found) ==
    IF found = <<>> THEN found ELSE [found EXCEPT ![1].difficulty = "difficulty/easy"]

\* The search result is the listing in some order; an issue that moves
\* between two pages while they are fetched is returned twice.
ApplyGenerateContent ==
    /\ fin.fn = "data" /\ fout = NoOutput
    /\ \/ \E items \in Orders(fin.issues) \cup
                       { Append(fin.issues, fin.issues[i]) : i \in 1..Len(fin.issues) } :
             fout' = [fn |-> "onboard",
                      items |-> items,
                      found |-> SearchOnboardIssues(items),
                      given |-> SearchOnboardIssues(items),
                      data |-> GenerateContentData(SearchOnboardIssues(items))]
       \/ fout' = [fn |-> "onboard",
                   items |-> fin.issues,
                   found |-> SearchOnboardIssues(fin.issues),
                   given |-> Foreign(SearchOnboardIssues(fin.issues)),
                   data |-> GenerateContentData(Foreign(SearchOnboardIssues(fin.issues)))]
    /\ UNCHANGED <<remote, runs, calls, ask, fin, cmd, mgr>>

\* The template's getPriorityLevel, applied to every issue of the listing.
ApplyGetPriorityLevel ==
    /\ fin.fn = "data" /\ fout = NoOutput
    /\ fout' = [fn |-> "level",
                levels |-> [ i \in 1..Len(fin.issues) |->
                               getPriorityLevel(fin.issues[i].labels, Priorities) ]]
    /\ UNCHANGED <<remote, runs, calls, ask, fin, cmd, mgr>>

NextData == ApplyPrepareTemplateData \/ ApplyGenerateContent \/ ApplyGetPriorityLevel

SpecData == InitData /\ [][NextData]_vars


(***************************************************************************)
(* Rendering: generatePlanningContent and GenerateContent execute a        *)
(* template over the prepared data; the template function "now" is the    *)
(* wall clock at the time of the call.  A content is the record of its     *)
(* sections.                                                               *)
(***************************************************************************)
MaxRenders == 2

Clock == { "January 30, 2025 15:04 UTC", "January 30, 2025 15:05 UTC" }

RenderKinds ==
    { [state |-> "closed", assignee |-> "alice", labels |-> <<"Bug">>],
      [state |-> "closed", assignee |-> "bob", labels |-> <<>>],
      [state |-> "open", assignee |-> "", labels |-> <<"priority/low", "priority/high">>] }

\* getPriorityMark: strings.Repeat("!", len(Priorities)-level)
getPriorityMark(level, priorities) ==
    IF level >= Len(priorities) THEN <<>> ELSE Repeat("!", Len(priorities) - level)

PlanningLines(issues, priorities) ==
    [ i \in 1..Len(issues) |->
        [ checked |-> issues[i].state = "closed",
          mark |-> getPriorityMark(getPriorityLevel(issues[i].labels, priorities), priorities),
          number |-> issues[i].number,
          assignee |-> issues[i].assignee,
          labels |-> issues[i].labels ] ]

generatePlanningContentWithTime(data, milestoneTitle, now) ==
    [ overview |-> [ progress |-> data.progressBar, total |-> data.total,
                     completed |-> data.completed,
                     inProgress |-> data.total - data.completed,
                     milestone |-> milestoneTitle ],
      highPriority |-> PlanningLines(data.highPriority, Priorities),
      categories |-> [ c \in DOMAIN data.issues |-> PlanningLines(data.issues[c], Priorities) ],
      uncategorized |-> PlanningLines(data.uncategorized, Priorities),
      contributors |-> [ i \in 1..Len(data.contributors) |-> "- @" \o data.contributors[i] ],
      footer |-> "> Last Updated: " \o now ]

OnboardLines(issues) ==
    [ i \in 1..Len(issues) |->
        [ checked |-> issues[i].status = "closed",
          number |-> issues[i].number,
          assignee |-> issues[i].assignee ] ]

GenerateContent(issues, now) ==
    LET data == GenerateContentData(issues)
    IN  [ overview |-> [ total |-> data.stats.total, completed |-> data.stats.completed,
                         inProgress |-> data.stats.inProgress,
                         unassigned |-> data.stats.unassigned ],
          contributors |-> [ i \in 1..Len(data.stats.contributors) |->
                               "@" \o data.stats.contributors[i] ],
          issues |-> [ d \in DOMAIN data.issuesByCategory |->
                         [ c \in DOMAIN data.issuesByCategory[d] |->
                             OnboardLines(data.issuesByCategory[d][c]) ] ],
          footer |-> "> Last Updated: " \o now ]

InitRender ==
    /\ remote = <<>>
    /\ runs = [r \in Runs |-> IdleRun]
    /\ calls = <<>>
    /\ ask = IdleAsk
    /\ fin \in { [fn |-> f, issues |-> Numbered(kinds), milestone |-> m] :
                   f \in {"renderPlan", "renderOnboard"},
                   kinds \in SeqsUpTo(RenderKinds, MaxIssues), m \in Milestones }
    /\ fout = [fn |-> "render", contents |-> <<>>]
    /\ cmd = IdleCmd
    /\ mgr = IdleMgr

RenderPlanning ==
    /\ fin.fn = "renderPlan" /\ Len(fout.contents) < MaxRenders
    /\ \E now \in Clock, contributorsList \in MapOrders(ContributorKeys(fin.issues)) :
          fout' = [fout EXCEPT !.contents = Append(@,
                      generatePlanningContentWithTime(
                          prepareTemplateData(fin.issues, contributorsList,
                                              Categories, Priorities),
                          MilestoneTitle(fin.milestone), now))]
    /\ UNCHANGED <<remote, runs, calls, ask, fin, cmd, mgr>>

RenderOnboarding ==
    /\ fin.fn = "renderOnboard" /\ Len(fout.contents) < MaxRenders
    /\ \E now \in Clock :
          fout' = [fout EXCEPT !.contents = Append(@,
                      GenerateContent(SearchOnboardIssues(fin.issues), now))]
    /\ UNCHANGED <<remote, runs, calls, ask, fin, cmd, mgr>>

NextRender == RenderPlanning \/ RenderOnboarding

SpecRender == InitRender /\ [][NextRender]_vars


(***************************************************************************)
(* The repository manager, which stores the list of managed repositories   *)
(* and the current one (config.State) and hands the current repository to  *)
(* the commands.  getCurrentGitRepo asks git for the first remote of the   *)
(* working directory at every call; the commands are separate processes    *)
(* and can be run from any directory.                                      *)
(***************************************************************************)
MaxRepos == 2

FullNames == { "o/a", "o/b" }

\* getCurrentGitRepo: owner/repo of the first remote, or an error.
GitResults ==
    { [repo |-> n, err |-> ""] : n \in FullNames }
        \cup { [repo |-> "", err |-> "failed to get git remote"] }

\* config.LoadState without a state file: &State{}
EmptyState == [Current |-> "", Repositories |-> <<>>]

Contains(repos, repoName) == \E i \in DOMAIN repos : repos[i] = repoName

SaveError(saved) == IF saved THEN "" ELSE "failed to save config: failed to write state file"

\* Manager.Add; fetched is what getRepository returned.
Add(state, repoName, fetched, saved) ==
    IF fetched.err # ""
    THEN [state |-> state, err |-> Wrap("failed to verify repository", fetched.err)]
    ELSE [state |-> [Current |-> fetched.FullName,
                     Repositories |-> Append(state.Repositories, fetched.FullName)],
          err |-> SaveError(saved)]

\* Manager.Remove; git is what getCurrentGitRepo returns.
Remove(state, repoName, git, saved) ==
    IF git.err = "" /\ repoName = git.repo
    THEN [state |-> state, err |-> "cannot remove current git repository"]
    ELSE LET found == Contains(state.Repositories, repoName)
             newRepos == SelectSeq(state.Repositories, LAMBDA repo : repo # repoName)
             cleared == IF found /\ repoName = state.Current THEN "" ELSE state.Current
             selected == IF cleared # "" THEN cleared
                         ELSE IF git.err = "" THEN git.repo
                         ELSE IF Len(newRepos) > 0 THEN newRepos[1]
                         ELSE ""
         IN  IF ~found
             THEN [state |-> state, err |-> "repository " \o repoName \o " not found"]
             ELSE [state |-> [Current |-> selected, Repositories |-> newRepos],
                   err |-> SaveError(saved)]

\* Manager.Current
Current(state, git) ==
    IF state.Current # "" THEN state.Current
    ELSE IF git.err = "" THEN git.repo
    ELSE ""

\* Manager.Switch
Switch(state, repoName, git, saved) ==
    LET found == (git.err = "" /\ repoName = git.repo) \/ Contains(state.Repositories, repoName)
    IN  IF ~found
        THEN [state |-> state,
              err |-> "repository " \o repoName \o " not found in config or current git repository"]
        ELSE [state |-> [state EXCEPT !.Current = repoName], err |-> SaveError(saved)]

\* mgr.state is m.state, mgr.git the remote of the directory the next command
\* runs in; op, arg, err, out and before describe the last call.
InitRepo ==
    /\ remote = <<>>
    /\ runs = [r \in Runs |-> IdleRun]
    /\ calls = <<>>
    /\ ask = IdleAsk
    /\ fin = NoInput
    /\ fout = NoOutput
    /\ cmd = IdleCmd
    /\ mgr \in [ op : {"NewManager"}, arg : {""}, err : {""}, out : {""},
                 before : {EmptyState}, state : {EmptyState}, git : GitResults ]

Called(op, arg, res, out) ==
    [ op |-> op, arg |-> arg, err |-> res.err, out |-> out,
      before |-> mgr.state, state |-> res.state, git |-> mgr.git ]

RepoAdd ==
    /\ mgr.op # "none"
    /\ Len(mgr.state.Repositories) < MaxRepos
    /\ \E repoName \in FullNames, saved \in BOOLEAN :
          \E fetched \in { [FullName |-> repoName, err |-> ""],
                           [FullName |-> "", err |-> "GitHub API returned status 404"] } :
             mgr' = Called("Add", repoName, Add(mgr.state, repoName, fetched, saved), "")
    /\ UNCHANGED <<remote, runs, calls, ask, fin, fout, cmd>>

RepoRemove ==
    /\ mgr.op # "none"
    /\ \E repoName \in FullNames, saved \in BOOLEAN :
          mgr' = Called("Remove", repoName, Remove(mgr.state, repoName, mgr.git, saved), "")
    /\ UNCHANGED <<remote, runs, calls, ask, fin, fout, cmd>>

RepoSwitch ==
    /\ mgr.op # "none"
    /\ \E repoName \in FullNames, saved \in BOOLEAN :
          mgr' = Called("Switch", repoName, Switch(mgr.state, repoName, mgr.git, saved), "")
    /\ UNCHANGED <<remote, runs, calls, ask, fin, fout, cmd>>

RepoCurrent ==
    /\ mgr.op # "none"
    /\ mgr' = Called("Current", "", [state |-> mgr.state, err |-> ""],
                     Current(mgr.state, mgr.git))
    /\ UNCHANGED <<remote, runs, calls, ask, fin, fout, cmd>>

\* The next command is run from another directory, or the remote of this one
\* was changed: git remote -v reports something else.
ChangeDirectory ==
    /\ mgr.op # "none"
    /\ \E git \in GitResults :
          /\ git # mgr.git
          /\ mgr' = [mgr EXCEPT !.git = git]
    /\ UNCHANGED <<remote, runs, calls, ask, fin, fout, cmd>>

NextRepo == RepoAdd \/ RepoRemove \/ RepoSwitch \/ RepoCurrent \/ ChangeDirectory

SpecRepo == InitRepo /\ [][NextRepo]_vars


(***************************************************************************)
(* Properties.                                                             *)
(***************************************************************************)
Live(r) == runs[r].mode # "none"

\* The write calls of run r, while the run is there to be asked about them.
WritesOf(r) == { i \in DOMAIN calls : calls[i].run = r /\ Live(r) }

Confirmed(r) ==
    /\ ~runs[r].dryRun
    /\ \/ runs[r].autoConfirm /\ ~runs[r].prompted
       \/ runs[r].answer = "yes"

ExpectedTitle(r) ==
    IF runs[r].mode = "plan" THEN PlanningTitle(MilestoneTitle(runs[r].milestone))
    ELSE TargetTitle

TrackingLabel(r) == IF runs[r].mode = "plan" THEN PlanningLabel ELSE TargetLabel

\* C1: with DryRun set, neither reconciler ever issues a create or an update,
\* whatever AutoConfirm, the remote state and the input are; the run does not
\* go on to the confirmation or the write, it ends after the preview.
C1_DryRunNeverWrites ==
    \A r \in Runs :
        (Live(r) /\ runs[r].dryRun) =>
            /\ WritesOf(r) = {}
            /\ runs[r].pc \notin {"confirm", "write"}
            /\ ~runs[r].prompted
            /\ runs[r].resolved => (runs[r].pc = "done" /\ runs[r].err = NoErr)

C1_Witness ==
    \E r \in Runs :
        /\ runs[r].mode = "onboard" /\ runs[r].dryRun /\ runs[r].autoConfirm
        /\ runs[r].pc = "done" /\ runs[r].resolved
        /\ runs[r].target # Nil
        /\ runs[r].shown = runs[r].content /\ runs[r].content # NoContent

\* C2: in a run that is not a dry run a write is issued only when AutoConfirm
\* is set and no prompt was shown, or the user answered yes; a run the user
\* declined has ended without a write and without an error.
C2_WriteOnlyAfterConfirmation ==
    \A r \in Runs :
        /\ (runs[r].pc = "write" \/ WritesOf(r) # {}) => Confirmed(r)
        /\ (Live(r) /\ runs[r].autoConfirm) => ~runs[r].prompted
        /\ (Live(r) /\ runs[r].answer = "no") =>
              /\ runs[r].pc = "done"
              /\ runs[r].err = NoErr
              /\ WritesOf(r) = {}

C2_Witness ==
    \E r \in Runs :
        /\ runs[r].mode = "plan" /\ ~runs[r].dryRun /\ ~runs[r].autoConfirm
        /\ runs[r].prompted /\ runs[r].answer = "no"
        /\ runs[r].pc = "done" /\ runs[r].err = NoErr

\* C3: every run that reached the resolve step has shown the rendered content,
\* and a create or update carries exactly the content that was shown before,
\* in dry-run, auto-confirm and interactive mode alike.
C3_PreviewBeforeWrite ==
    \A r \in Runs :
        /\ (Live(r) /\ runs[r].resolved) =>
              (runs[r].shown = runs[r].content /\ runs[r].shown # NoContent)
        /\ runs[r].pc = "write" => runs[r].shown # NoContent
        /\ \A i \in WritesOf(r) :
              runs[r].shown # NoContent /\ calls[i].body = runs[r].shown

C3_Witness ==
    \E r \in Runs :
        /\ runs[r].mode = "plan" /\ runs[r].answer = "yes"
        /\ \E i \in WritesOf(r) :
              calls[i].body = runs[r].shown /\ runs[r].shown # NoContent

\* C4: a planning run with no resolved tracking issue, DryRun false and
\* AutoConfirm true never prompts and, once it has returned, has issued exactly
\* one call: a create with title "Planning: <milestone title>", the rendered
\* content as body and exactly the planning label.
C4_AutoConfirmCreatesOnce ==
    \A r \in Runs :
        ( /\ runs[r].mode = "plan" /\ runs[r].resolved
          /\ runs[r].target = Nil /\ ~runs[r].dryRun /\ runs[r].autoConfirm ) =>
            /\ ~runs[r].prompted
            /\ runs[r].pc \in {"write", "done"}
            /\ runs[r].pc = "done" =>
                 /\ Cardinality(WritesOf(r)) = 1
                 /\ \A i \in WritesOf(r) :
                       /\ calls[i].kind = "POST"
                       /\ calls[i].title = PlanningTitle(MilestoneTitle(runs[r].milestone))
                       /\ calls[i].body = runs[r].content
                       /\ calls[i].body # NoContent
                       /\ calls[i].labels = {PlanningLabel}

C4_Witness ==
    \E r \in Runs :
        /\ runs[r].mode = "plan" /\ runs[r].resolved /\ runs[r].target = Nil
        /\ ~runs[r].dryRun /\ runs[r].autoConfirm /\ runs[r].pc = "done"
        /\ \E i \in WritesOf(r) : calls[i].kind = "POST" /\ calls[i].ok



\* C5: for every candidate list the planning resolver returns the candidate
\* with the smallest number among those titled exactly "Planning: <milestone
\* title>", and nothing iff there is none; candidates with other titles do not
\* change the result.
C5_ResolveSmallestExactTitle ==
    fout.fn = "plan" =>
        LET title == PlanningTitle(MilestoneTitle(fin.milestone))
            match == { i \in 1..Len(fin.existing) : fin.existing[i].title = title }
            onlyMatches == SelectSeq(fin.existing, LAMBDA c : c.title = title)
        IN  /\ (fout.issue = Nil) <=> (match = {})
            /\ match # {} =>
                  /\ fout.issue.title = title
                  /\ fout.issue.number = MinOf({ fin.existing[i].number : i \in match })
            /\ fout.issue = FindPlanningIssue(onlyMatches, title)

C5_Witness ==
    /\ fout.fn = "plan" /\ fin.milestone = 1
    /\ Len(fin.existing) = 3
    /\ fin.existing[1] = [number |-> 1, title |-> "planning: v1"]
    /\ fin.existing[2] = [number |-> 3, title |-> PlanningTitle("v1")]
    /\ fin.existing[3] = [number |-> 2, title |-> PlanningTitle("v1")]
    /\ fout.issue = [number |-> 2, title |-> PlanningTitle("v1")]

\* C6: a run that has returned from a confirmed, non-dry reconciliation issued
\* exactly one write: a create iff no target was resolved, else a patch of the
\* resolved target's number; no run ever issues two writes, and dry-run and
\* declined runs issue none.
C6_SingleWritePolicy ==
    \A r \in Runs :
        /\ Cardinality(WritesOf(r)) <= 1
        /\ (Live(r) /\ runs[r].pc = "done" /\ runs[r].resolved /\ Confirmed(r)) =>
              /\ Cardinality(WritesOf(r)) = 1
              /\ \A i \in WritesOf(r) :
                    /\ (calls[i].kind = "POST") <=> (runs[r].target = Nil)
                    /\ (calls[i].kind = "PATCH") <=> (runs[r].target # Nil)
                    /\ calls[i].kind = "PATCH" => calls[i].number = runs[r].target.number
        /\ (Live(r) /\ (runs[r].dryRun \/ runs[r].answer \in {"no", "empty"}
                        \/ ~runs[r].resolved)) =>
              (runs[r].pc \in {"done", "confirm"} => WritesOf(r) = {})

C6_Witness ==
    \E r \in Runs :
        /\ runs[r].pc = "done" /\ Confirmed(r) /\ runs[r].target # Nil
        /\ Len(remote) >= 2 /\ runs[r].target.number = 2
        /\ \E i \in WritesOf(r) : calls[i].kind = "PATCH" /\ calls[i].number = 2

\* C7: over runs executed one after another, at most one create succeeds for a
\* milestone, and a planning run that resolves after a successful create for
\* its milestone finds the created issue as its target (and so patches it).
CreatesFor(m) ==
    { i \in DOMAIN calls :
        calls[i].mode = "plan" /\ calls[i].milestone = m
        /\ calls[i].kind = "POST" /\ calls[i].ok }

C7_NoDuplicateCreation ==
    \A m \in Milestones :
        /\ Cardinality(CreatesFor(m)) <= 1
        /\ \A r \in Runs, i \in CreatesFor(m) :
              ( /\ calls[i].run < r
                /\ runs[r].mode = "plan" /\ runs[r].milestone = m
                /\ runs[r].resolved ) =>
                  /\ runs[r].target = [number |-> calls[i].response,
                                       title |-> PlanningTitle(MilestoneTitle(m))]
                  /\ calls[i].title = PlanningTitle(MilestoneTitle(m))
                  /\ \A j \in WritesOf(r) :
                        /\ calls[j].kind = "PATCH"
                        /\ calls[j].number = calls[i].response
                        /\ calls[j].title = calls[i].title

C7_Witness ==
    \E i, j \in DOMAIN calls :
        /\ i < j
        /\ calls[i].mode = "plan" /\ calls[i].kind = "POST" /\ calls[i].ok
        /\ calls[j].mode = "plan" /\ calls[j].milestone = calls[i].milestone
        /\ calls[j].kind = "PATCH" /\ calls[j].ok
        /\ calls[j].number = calls[i].response


\* The numbers of the issues on the tracker that carry run r's tracking label
\* and have the title run r expects.
TitleMatches(r) ==
    { n \in Carrying(remote, TrackingLabel(r)) : remote[n].title = ExpectedTitle(r) }

\* C8: the issue the onboarding reconciler selects always has the configured
\* TargetTitle and is the lowest-numbered issue with that title; an issue with
\* the target label and another title is never selected or patched, and with
\* no labelled issue of that title the run creates.
C8_OnboardTargetHasTitle ==
    \A r \in Runs :
        (runs[r].mode = "onboard" /\ runs[r].resolved) =>
            /\ runs[r].target # Nil => runs[r].target.title = TargetTitle
            /\ runs[r].matches = 0 => runs[r].target = Nil
            /\ \A i \in WritesOf(r) :
                  /\ calls[i].kind = "POST" <=> runs[r].matches = 0
                  /\ calls[i].kind = "PATCH" => runs[r].target.title = TargetTitle

\* C9: with two or more candidates of the expected title, a run of either
\* reconciler warns about the duplicates, resolves to the lowest-numbered of
\* them, goes on to preview, confirmation and write, and returns no error on
\* their account.
C9_DuplicatesWarnNotFail ==
    \A r \in Runs :
        (Live(r) /\ runs[r].resolved /\ runs[r].matches >= 2) =>
            /\ runs[r].warned
            /\ runs[r].target.title = ExpectedTitle(r)
            /\ runs[r].pc \in {"confirm", "write"} =>
                  runs[r].target.number = MinOf(TitleMatches(r))
            /\ runs[r].shown = runs[r].content
            /\ runs[r].err # NoErr =>
                  \/ runs[r].answer = "readerr"
                  \/ \E i \in WritesOf(r) : ~calls[i].ok

\* C10: prompt.AskForConfirmation returns true on a line that is y or yes and
\* false on a line that is n, no or empty, after trimming and lower-casing;
\* every line read before the one answered on was none of these, and the
\* result is that of the last line read, whatever the lines before it were.
C10_PromptSemantics ==
    LET n == Len(ask.lines)
    IN  /\ ask.state = "reading" => \A k \in 1..n : ask.lines[k] \in OtherLines
        /\ (ask.state = "returned" /\ ask.result # "err") =>
              /\ n >= 1
              /\ \A k \in 1..(n - 1) : ask.lines[k] \in OtherLines
              /\ ask.result = "true" <=> ask.lines[n] \in YesLines
              /\ ask.result = "false" <=> ask.lines[n] \in (NoLines \cup EmptyLines)

C10_Witness ==
    /\ ask.state = "returned" /\ ask.result = "false"
    /\ Len(ask.lines) = 2
    /\ ask.lines[1] = <<"n","o","p","e">>
    /\ ask.lines[2] = <<"\t","\r">>


\* C11: in the planning reconciler an empty input line is a "no": once the
\* user has just pressed enter the prompt has stopped, the run is declined
\* (returned without error) and no write occurs.
C11_PlanEmptyLineDeclines ==
    \A r \in Runs :
        (runs[r].mode = "plan" /\ runs[r].answer = "empty") =>
            /\ runs[r].pc = "done"
            /\ runs[r].err = NoErr
            /\ WritesOf(r) = {}

\* C12: in batch mode Update is attempted exactly once for every open
\* milestone of the listing, in list order and with the command's options;
\* a failed Update is logged and the later ones are still attempted, and the
\* command returns without error.
C12_BatchAttemptsEveryMilestone ==
    (cmd.pc \in {"batch", "returned"} /\ cmd.milestones # <<>>) =>
        LET n == IF cmd.pc = "returned" THEN Len(cmd.milestones) ELSE cmd.idx - 1
            failed(a) == a.err # NoErr
        IN  /\ Len(cmd.attempts) = n
            /\ \A i \in 1..n :
                  /\ cmd.attempts[i].milestone = cmd.milestones[i]
                  /\ cmd.attempts[i].dryRun = cmd.dryRun
                  /\ cmd.attempts[i].autoConfirm = cmd.autoConfirm
            /\ Len(cmd.logged) = Len(SelectSeq(cmd.attempts, failed))
            /\ \A i \in 1..Len(cmd.logged) :
                  /\ cmd.logged[i].milestone = SelectSeq(cmd.attempts, failed)[i].milestone
                  /\ cmd.logged[i].err = SelectSeq(cmd.attempts, failed)[i].err
            /\ cmd.pc = "returned" => cmd.result = NoErr

C12_Witness ==
    /\ cmd.pc = "returned"
    /\ Len(cmd.milestones) = 2
    /\ Len(cmd.attempts) = 2
    /\ cmd.attempts[1].err # NoErr
    /\ cmd.attempts[2].err = NoErr
    /\ \E i \in 1..Len(calls) :
          calls[i].ok /\ calls[i].milestone = cmd.milestones[2]

\* C13: a planning run issues each of its requests at most once; a failed
\* fetch of the milestone, of its issues or of the candidates makes Update
\* return an error that names the operation and wraps the cause, with no
\* request after the failed one and no create or update; a failed create or
\* update was attempted once and is returned as an error.
C13_TransportErrorsPropagate ==
    \A r \in Runs :
        runs[r].mode = "plan" =>
            LET net == runs[r].net
                FetchErrors ==
                    { <<"getMilestone", "failed to get milestone: transport error">>,
                      <<"getIssues", "failed to get issues: transport error">>,
                      <<"getExisting", "failed to get existing planning issues: transport error">> }
                WriteErrors ==
                    { <<"POST", "failed to create planning issue: transport error">>,
                      <<"PATCH", "failed to update planning issue: transport error">> }
            IN  /\ \A i, j \in DOMAIN net : net[i] = net[j] => i = j
                /\ Cardinality({ i \in DOMAIN net : net[i] \in {"POST", "PATCH"} }) <= 1
                /\ runs[r].err # NoErr =>
                      /\ runs[r].pc = "done"
                      /\ net # <<>>
                      /\ <<net[Len(net)], runs[r].err>> \in FetchErrors \cup WriteErrors
                /\ \A e \in FetchErrors :
                      runs[r].err = e[2] => WritesOf(r) = {}
                /\ \A i \in WritesOf(r) :
                      ~calls[i].ok =>
                          /\ WritesOf(r) = {i}
                          /\ <<calls[i].kind, runs[r].err>> \in WriteErrors
                          /\ net[Len(net)] = calls[i].kind

C13_Witness ==
    \E r \in Runs :
        /\ runs[r].mode = "plan"
        /\ runs[r].pc = "done"
        /\ runs[r].net = <<"getMilestone", "getIssues", "getExisting">>
        /\ runs[r].err = "failed to get existing planning issues: transport error"
        /\ remote # <<>>

\* C14: when no repository is selected, the repository name is not of the
\* form owner/repo or the milestone argument is not a well-formed integer,
\* the plan command makes no request to the tracker (no listing, no fetch,
\* no write) and returns an error.
C14_InputErrorsFailFast ==
    (/\ cmd.pc # "idle"
     /\ \/ cmd.repo \notin OwnerRepoNames
        \/ Len(cmd.args) > 0 /\ cmd.args[1] \notin WellFormedArgs) =>
        /\ cmd.net = 0
        /\ \A r \in Runs : runs[r].net = <<>>
        /\ calls = <<>>
        /\ cmd.pc = "returned" => cmd.result # NoErr

\* C20: for 0 <= completed <= total and a bar of L cells the planning
\* progress bar is floor(completed*L/total) filled cells, then empty cells up
\* to L, then the percentage floor(100*completed/total); for total = 0 it is
\* L empty cells and "0%".
C20_ProgressBarIsFloor ==
    fout.fn = "bar" =>
        LET c == fin.completed
            t == fin.total
            L == fin.length
            cells == IF t = 0 THEN 0 ELSE (c * L) \div t
            percent == IF t = 0 THEN 0 ELSE (100 * c) \div t
        IN  fout.text = Repeat("█", cells) \o Repeat("░", L - cells)
                            \o <<" ">> \o Itoa(percent) \o <<"%">>

\* C15: after prepareTemplateData every input issue appears exactly once in
\* the category buckets and the Uncategorized list taken together, and it is
\* in Uncategorized iff none of its labels matches a configured category.
C15_ClassificationTotal ==
    fout.fn = "plan" =>
        \A n \in 1..Len(fin.issues) :
            LET issue == fin.issues[n]
                times(list) == Cardinality({ i \in 1..Len(list) : list[i].number = issue.number })
                buckets == { fout.data.issues[c] : c \in DOMAIN fout.data.issues }
                inBuckets == { c \in DOMAIN fout.data.issues : times(fout.data.issues[c]) > 0 }
            IN  /\ \A c \in DOMAIN fout.data.issues : times(fout.data.issues[c]) <= 1
                /\ Cardinality(inBuckets) + times(fout.data.uncategorized) = 1
                /\ times(fout.data.uncategorized) = 1 <=>
                      ~\E l \in 1..Len(issue.labels) : \E c \in 1..Len(Categories) :
                          Fold(issue.labels[l]) = Fold(Categories[c])

\* C16: the rank getPriorityLevel gives an issue, and the difficulty and
\* category SearchOnboardIssues gives it, is the earliest entry of the
\* configured taxonomy that any label of the issue matches (the sentinel
\* when none does), whatever the order of the labels.
C16_TaxonomyOrderWins ==
    LET matched(labels, taxonomy) ==
            { i \in 1..Len(taxonomy) :
                \E l \in 1..Len(labels) : Fold(labels[l]) = Fold(taxonomy[i]) }
        earliest(labels, taxonomy) ==
            IF matched(labels, taxonomy) = {} THEN ""
            ELSE taxonomy[MinOf(matched(labels, taxonomy))]
    IN  /\ fout.fn = "level" =>
              \A i \in 1..Len(fin.issues) :
                  fout.levels[i] =
                      IF matched(fin.issues[i].labels, Priorities) = {}
                      THEN Len(Priorities)
                      ELSE MinOf(matched(fin.issues[i].labels, Priorities)) - 1
        /\ fout.fn = "onboard" =>
              \A i \in 1..Len(fout.items) :
                  /\ fout.found[i].difficulty = earliest(fout.items[i].labels, DifficultyLabels)
                  /\ fout.found[i].category = earliest(fout.items[i].labels, CategoryLabels)

\* C17: the onboarding statistics partition the unique issues: closed ones
\* are Completed, open ones with an assignee InProgress, open ones without
\* Unassigned, so the three add up to TotalIssues; the contributors are
\* assignees of closed issues only.
C17_OnboardStatsPartition ==
    fout.fn = "onboard" =>
        LET stats == fout.data.stats
            numbers == { fout.items[i].number : i \in 1..Len(fout.items) }
            of(n) == fout.items[CHOOSE i \in 1..Len(fout.items) : fout.items[i].number = n]
            closed == { n \in numbers : of(n).state = "closed" }
            assigned == { n \in numbers : of(n).assignee # "" }
        IN  /\ stats.total = Cardinality(numbers)
            /\ stats.completed = Cardinality(closed)
            /\ stats.inProgress = Cardinality(assigned \ closed)
            /\ stats.unassigned = Cardinality(numbers \ (closed \cup assigned))
            /\ stats.completed + stats.inProgress + stats.unassigned = stats.total
            /\ { stats.contributors[i] : i \in 1..Len(stats.contributors) }
                  = { of(n).assignee : n \in closed \cap assigned }

C17_Witness ==
    /\ fout.fn = "onboard"
    /\ Len(fout.items) = 3
    /\ fout.data.stats.total = 2
    /\ fout.data.stats.completed = 1
    /\ fout.data.stats.inProgress = 1
    /\ fout.data.stats.contributors = <<"bob">>
    /\ \E i \in 1..Len(fout.items) :
          fout.items[i].state = "open" /\ fout.items[i].assignee = "alice"

\* C18: in planning and in onboarding the contributor list is exactly the
\* set of the assignees of the closed issues, without duplicates and in
\* lexicographic order.
C18_ContributorsCanonical ==
    LET canonical(list, issues) ==
            /\ { list[i] : i \in 1..Len(list) } = ContributorKeys(issues)
            /\ \A i, j \in 1..Len(list) : i < j => Rank(list[i]) < Rank(list[j])
    IN  /\ fout.fn = "plan" => canonical(fout.data.contributors, fin.issues)
        /\ fout.fn = "onboard" => canonical(fout.data.stats.contributors, fout.items)

\* C19: rendering the body twice from the same milestone, issue list and
\* taxonomy gives the same content.
C19_RenderDeterministic ==
    (fout.fn = "render" /\ fin.fn \in {"renderPlan", "renderOnboard"}) =>
        \A i, j \in 1..Len(fout.contents) : fout.contents[i] = fout.contents[j]

\* C21: the onboarding progress bar always has exactly 20 cells; for
\* total = 0 all of them are empty and the bar is followed by a percentage of
\* zero; for total > 0 at most 20 cells are filled and at least one is
\* whenever completed > 0.
C21_OnboardBarShape ==
    fout.fn = "obar" =>
        LET text == fout.text
            filled == Cardinality({ i \in 1..Len(text) : text[i] = "█" })
            cells == Cardinality({ i \in 1..Len(text) : text[i] \in {"█", "░"} })
        IN  /\ cells = 20
            /\ \A i \in 1..20 : text[i] \in {"█", "░"}
            /\ fin.total = 0 =>
                  /\ filled = 0
                  /\ SubSeq(text, 21, Len(text)) \in
                         { <<" ", "0", "%">>, <<" ", "0", ".", "0", "%">> }
            /\ fin.total > 0 =>
                  /\ filled <= 20
                  /\ fin.completed > 0 => filled >= 1

\* C22: HighPriorityIssues holds exactly the issues whose priority rank (the
\* earliest entry of the priority taxonomy one of their labels matches) is 0
\* or 1, each once, by ascending rank and then ascending number; an issue
\* without priority label is never in it.
C22_HighPriorityExact ==
    fout.fn = "plan" =>
        LET priorities == fout.priorities
            high == fout.data.highPriority
            matched(labels) ==
                { i \in 1..Len(priorities) :
                    \E l \in 1..Len(labels) : Fold(labels[l]) = Fold(priorities[i]) }
            rank(issue) == IF matched(issue.labels) = {} THEN Len(priorities)
                           ELSE MinOf(matched(issue.labels)) - 1
            top == { n \in 1..Len(fin.issues) :
                       /\ matched(fin.issues[n].labels) # {}
                       /\ rank(fin.issues[n]) < 2 }
        IN  /\ { high[i] : i \in 1..Len(high) } = { fin.issues[n] : n \in top }
            /\ Len(high) = Cardinality(top)
            /\ \A i, j \in 1..Len(high) :
                  i < j => LessKey(<<rank(high[i]), high[i].number>>,
                                   <<rank(high[j]), high[j].number>>)

\* C23: getPriorityLevel returns len(priorities) iff no label of the issue
\* matches a configured priority, and in every category section and in
\* Uncategorized the issues are in ascending order of level and then of
\* number, so the issues without priority come last.
C23_UnmatchedRankLast ==
    LET level(issue) == getPriorityLevel(issue.labels, fout.priorities)
        ordered(list) ==
            \A i, j \in 1..Len(list) :
                i < j => ~LessKey(<<level(list[j]), list[j].number>>,
                                  <<level(list[i]), list[i].number>>)
    IN  /\ fout.fn = "level" =>
              \A n \in 1..Len(fin.issues) :
                  (fout.levels[n] = Len(Priorities)) <=>
                      ~\E l \in 1..Len(fin.issues[n].labels), i \in 1..Len(Priorities) :
                          Fold(fin.issues[n].labels[l]) = Fold(Priorities[i])
        /\ fout.fn = "plan" =>
              /\ \A c \in DOMAIN fout.data.issues : ordered(fout.data.issues[c])
              /\ ordered(fout.data.uncategorized)

\* C24: every (difficulty, category) bucket of the onboarding content,
\* the unspecified ones included, lists its open issues before its closed
\* ones and, within a status, the issues by ascending number, in whatever
\* order the search returned them.
C24_OnboardSectionOrder ==
    fout.fn = "onboard" =>
        \A d \in DOMAIN fout.data.issuesByCategory :
            \A c \in DOMAIN fout.data.issuesByCategory[d] :
                LET bucket == fout.data.issuesByCategory[d][c]
                IN  \A i, j \in 1..Len(bucket) :
                        i < j =>
                            /\ bucket[i].status = "open" \/ bucket[j].status = "closed"
                            /\ bucket[i].status = bucket[j].status =>
                                  bucket[i].number < bucket[j].number

C24_Witness ==
    /\ fout.fn = "onboard"
    /\ Len(fout.items) = 2
    /\ fout.items[1].number = 1 /\ fout.items[1].state = "closed"
    /\ fout.items[2].number = 2 /\ fout.items[2].state = "open"
    /\ \E d \in DOMAIN fout.data.issuesByCategory :
          \E c \in DOMAIN fout.data.issuesByCategory[d] :
              LET bucket == fout.data.issuesByCategory[d][c]
              IN  /\ Len(bucket) = 2
                  /\ bucket[1].number = 2 /\ bucket[2].number = 1

\* C29: GenerateContent keeps the first occurrence of every issue number and
\* puts each kept issue in exactly one (difficulty, category) bucket, the ""
\* bucket when its difficulty or category is empty or not configured; the
\* difficulty maps written to are the initialised ones and the bucket sizes
\* add up to Stats.TotalIssues.
C29_OnboardGroupingTotal ==
    fout.fn = "onboard" =>
        LET given == fout.given
            buckets == fout.data.issuesByCategory
            firsts == { i \in 1..Len(given) :
                          \A j \in 1..(i - 1) : given[j].number # given[i].number }
            configured(name, taxonomy) ==
                IF \E k \in 1..Len(taxonomy) : taxonomy[k] = name THEN name ELSE ""
            places(issue) ==
                { <<d, c, k>> \in UNION { UNION { {d2} \X {c2} \X (1..Len(buckets[d2][c2])) :
                                                    c2 \in DOMAIN buckets[d2] } :
                                          d2 \in DOMAIN buckets } :
                    buckets[d][c][k] = issue }
            sizes == [ d \in DOMAIN buckets |->
                         Cardinality(UNION { {c} \X (1..Len(buckets[d][c])) :
                                               c \in DOMAIN buckets[d] }) ]
            Sum[S \in SUBSET DOMAIN buckets] ==
                IF S = {} THEN 0
                ELSE LET d == CHOOSE x \in S : TRUE IN sizes[d] + Sum[S \ {d}]
        IN  /\ DOMAIN buckets = { DifficultyLabels[k] : k \in 1..Len(DifficultyLabels) } \cup {""}
            /\ Len(fout.data.unique) = Cardinality(firsts)
            /\ \A i \in firsts :
                  /\ \E k \in 1..Len(fout.data.unique) : fout.data.unique[k] = given[i]
                  /\ places(given[i]) =
                        { <<configured(given[i].difficulty, DifficultyLabels),
                            configured(given[i].category, CategoryLabels), k>> :
                          k \in { k2 \in 1..Len(buckets[configured(given[i].difficulty, DifficultyLabels)]
                                                       [configured(given[i].category, CategoryLabels)]) :
                                    buckets[configured(given[i].difficulty, DifficultyLabels)]
                                           [configured(given[i].category, CategoryLabels)][k2] = given[i] } }
                  /\ Cardinality(places(given[i])) = 1
            /\ Sum[DOMAIN buckets] = fout.data.stats.total
            /\ fout.data.stats.total = Cardinality(firsts)

C29_Witness ==
    /\ fout.fn = "onboard"
    /\ Len(fout.given) = 2
    /\ fout.given[1].difficulty = "difficulty/easy"
    /\ fout.given[2].difficulty = "help wanted"
    /\ Len(fout.data.issuesByCategory[""][""]) = 1
    /\ fout.data.issuesByCategory[""][""][1].number = fout.given[1].number
    /\ fout.data.stats.total = 2

\* C25: a planning run modifies at most one issue of the tracker: with a
\* resolved target the only issue that changes is the lowest-numbered issue
\* with the tracking label and the exact title, without a target the only
\* change is the created issue; every other issue stays as it was, and no
\* issue is deleted, closed or relabelled.
C25_PlanningFrame ==
    /\ [](\A r \in Runs : runs[r].mode = "plan" => Cardinality(WritesOf(r)) <= 1)
    /\ [][ \A r \in Runs :
             (runs[r].mode = "plan" /\ runs[r].pc = "write" /\ runs'[r].pc = "done") =>
                 LET changed == { n \in 1..Len(remote') :
                                    n > Len(remote) \/ remote'[n] # remote[n] }
                     sent == calls'[Len(calls')]
                 IN  /\ Len(calls') = Len(calls) + 1
                     /\ Len(remote') >= Len(remote)
                     /\ \A n \in 1..Len(remote) : remote'[n].labels = remote[n].labels
                     /\ Cardinality(changed) <= 1
                     /\ sent.kind \in {"POST", "PATCH"}
                     /\ sent.kind = "PATCH" => sent.keys = {"title", "body"}
                     /\ IF TitleMatches(r) # {}
                        THEN /\ sent.kind = "PATCH"
                             /\ sent.number = MinOf(TitleMatches(r))
                             /\ changed \subseteq {MinOf(TitleMatches(r))}
                        ELSE /\ sent.kind = "POST"
                             /\ changed \subseteq {Len(remote) + 1}
         ]_vars

C25_Witness ==
    /\ Len(remote) = 2
    /\ remote[1].title = PlanningTitle(MilestoneTitle(1))
    /\ remote[2].title = "Other"
    /\ PlanningLabel \in remote[1].labels \cap remote[2].labels
    /\ remote[1].body # OldBody /\ remote[2].body = OldBody
    /\ \E i \in DOMAIN calls :
          /\ calls[i].mode = "plan" /\ calls[i].kind = "PATCH" /\ calls[i].ok
          /\ calls[i].number = 1

\* C26: when planning runs for one tracker interleave, each run issues at most
\* one write and so at most one create; a run creates only if its own listing
\* showed no labelled issue with the exact title; every run that created an
\* issue of a title had listed before the first create of that title was
\* written, so duplicates come only from runs that resolved before any of
\* them wrote; and a run whose listing already showed duplicates creates
\* nothing and patches only the lowest-numbered of them.
C26_InterleavedRuns ==
    /\ \A r \in Runs :
          /\ Cardinality(WritesOf(r)) <= 1
          /\ \A i \in WritesOf(r) :
                calls[i].kind = "POST" =>
                    /\ runs[r].resolved
                    /\ runs[r].matches = 0
                    /\ runs[r].target = Nil
                    /\ runs[r].seenCalls < i
          /\ (runs[r].resolved /\ runs[r].matches >= 1) =>
                /\ runs[r].target # Nil
                /\ runs[r].target.number = MinOf(TitleMatches(r))
                /\ \A i \in WritesOf(r) :
                      calls[i].kind = "PATCH" /\ calls[i].number = MinOf(TitleMatches(r))
    /\ \A m \in Milestones :
          /\ \A j \in CreatesFor(m) :
                runs[calls[j].run].seenCalls < MinOf(CreatesFor(m))
          /\ Cardinality(CreatesFor(m)) <=
                Cardinality({ r \in Runs : /\ runs[r].mode = "plan" /\ runs[r].milestone = m
                                           /\ runs[r].resolved /\ runs[r].matches = 0 })

\* Two runs both listed an empty tracker, then each created the issue.
C26_Witness ==
    /\ Cardinality(CreatesFor(1)) >= 2
    /\ \A j \in CreatesFor(1) : runs[calls[j].run].seenCalls = 0
    /\ Cardinality({ n \in Carrying(remote, PlanningLabel) :
                       remote[n].title = PlanningTitle(MilestoneTitle(1)) }) >= 2

\* The error of the command when ListOpenMilestones fails.
ListingError == "failed to list open milestones: failed to list milestones: transport error"

\* C27: once the plan command has asked for the open milestones, it returns
\* an error only if that listing failed, and then no Update was started and no
\* request was written; when the listing succeeded it returns nil, however
\* many of the Updates failed, including when every one of them failed.
C27_BatchResult ==
    (cmd.pc = "returned" /\ cmd.net >= 1) =>
        /\ cmd.result \in {NoErr, ListingError}
        /\ cmd.milestones # <<>> =>
              /\ cmd.result = NoErr
              /\ Len(cmd.attempts) = Len(cmd.milestones)
        /\ cmd.result = ListingError =>
              /\ cmd.milestones = <<>>
              /\ cmd.attempts = <<>>
              /\ cmd.logged = <<>>
              /\ runs[1] = IdleRun
              /\ calls = <<>>

\* Every Update of a two-milestone batch failed and the command returned nil.
C27_Witness ==
    /\ cmd.pc = "returned" /\ cmd.net >= 1
    /\ Len(cmd.milestones) = 2
    /\ Len(cmd.attempts) = 2
    /\ \A i \in 1..2 : cmd.attempts[i].err # NoErr
    /\ cmd.result = NoErr

\* C28: a run whose read of the confirmation input failed has ended, at the
\* prompt and without a create or an update: the planning run returns nil
\* as for a decline, the onboarding run returns the wrapped read error.
C28_ReadFailureNeverWrites ==
    \A r \in Runs :
        runs[r].answer = "readerr" =>
            /\ runs[r].pc = "done"
            /\ runs[r].prompted
            /\ WritesOf(r) = {}
            /\ \A i \in DOMAIN runs[r].net : runs[r].net[i] \notin {"POST", "PATCH"}
            /\ runs[r].mode = "plan" => runs[r].err = NoErr
            /\ runs[r].mode = "onboard" => runs[r].err = "failed to read user input: EOF"

\* A planning run that was about to update an existing issue lost its input;
\* it returned nil and the tracker is as it was.
C28_Witness ==
    \E r \in Runs :
        /\ runs[r].mode = "plan" /\ runs[r].answer = "readerr"
        /\ runs[r].target # Nil
        /\ runs[r].pc = "done" /\ runs[r].err = NoErr
        /\ \A n \in DOMAIN remote : remote[n].body = OldBody

\* C30: after any sequence of Add, Remove and Switch calls the stored
\* current repository is empty, a member of the managed list or the current
\* git repository; a successful Remove(r) leaves r out of the list and the
\* current repository different from r; a Remove of an unmanaged repository
\* returns an error and changes neither the list nor the current repository.
C30_CurrentRepository ==
    mgr.op # "none" =>
        /\ \/ mgr.state.Current = ""
           \/ Contains(mgr.state.Repositories, mgr.state.Current)
           \/ mgr.git.err = "" /\ mgr.state.Current = mgr.git.repo
        /\ (mgr.op = "Remove" /\ mgr.err = "") =>
              /\ ~Contains(mgr.state.Repositories, mgr.arg)
              /\ mgr.state.Current # mgr.arg
        /\ (mgr.op = "Remove" /\ ~Contains(mgr.before.Repositories, mgr.arg)) =>
              /\ mgr.err # ""
              /\ mgr.state = mgr.before

====
